---- MODULE Spec2Model ----
(***************************************************************************)
(* Reconciliation engine of the medical-document OCR pipeline:             *)
(* AnalizadorDiscrepancias (src/analizador_discrepancias.py) and the run   *)
(* that drives it (main: procesar_resultados, then                         *)
(* generar_resumen_ejecutivo).                                             *)
(*                                                                         *)
(* Representation of Python values                                         *)
(*   str        a sequence of one-character strings                        *)
(*   None       the one-element sequence <<"None">>  (no str looks so)     *)
(*   dict       a function from key strings; {} is the empty function      *)
(*   float      a binary fixed-point vector rounded to 53 significant bits *)
(***************************************************************************)
EXTENDS Integers, Sequences, FiniteSets, TLC

VARIABLES pc, resultado_tipo1, resultado_tipo2, resultado_tipo3,
          discrepancias, resumen, entrada, salida

vars == <<pc, resultado_tipo1, resultado_tipo2, resultado_tipo3,
          discrepancias, resumen, entrada, salida>>

(***************************************************************************)
(* Python values                                                           *)
(***************************************************************************)
None == <<"None">>

\* bool(x) of a str-or-None value: None and "" are falsy
Truthy(x) == x # None /\ x # <<>>

\* dict.get(key, default)
Get(d, key, default) == IF key \in DOMAIN d THEN d[key] ELSE default

SetMin(S) == CHOOSE x \in S : \A y \in S : x <= y

SetMax(S) == CHOOSE x \in S : \A y \in S : x >= y

\* the list f[1], ..., f[n], built element by element
List(f, n) == SubSeq(f, 1, n)

Indices(s) == List([i \in 1..Len(s) |-> i], Len(s))

(***************************************************************************)
(* str.lower(), str.strip(), re.sub(r'\s+', ' ', ...)                      *)
(***************************************************************************)
Whitespace == {" ", "\t", "\n"}

Mayusculas == <<"A","B","C","D","E","F","G","H","I","J","K","L","M","N","O",
                "P","Q","R","S","T","U","V","W","X","Y","Z","Á","É","Í","Ó",
                "Ú","Ñ">>

Minusculas == <<"a","b","c","d","e","f","g","h","i","j","k","l","m","n","o",
                "p","q","r","s","t","u","v","w","x","y","z","á","é","í","ó",
                "ú","ñ">>

LowerChar(c) ==
    IF \E i \in 1..Len(Mayusculas) : Mayusculas[i] = c
    THEN Minusculas[CHOOSE i \in 1..Len(Mayusculas) : Mayusculas[i] = c]
    ELSE c

Lower(s) == List([i \in 1..Len(s) |-> LowerChar(s[i])], Len(s))

\* str.strip() removing at most one whitespace character from each end
Strip_uno(s) ==
    LET desde == IF Len(s) > 0 /\ s[1] \in Whitespace THEN 2 ELSE 1
        hasta == IF Len(s) > 1 /\ s[Len(s)] \in Whitespace THEN Len(s) - 1 ELSE Len(s)
    IN  SubSeq(s, desde, hasta)

Strip(s) ==
    LET solid == {i \in 1..Len(s) : s[i] \notin Whitespace}
    IN  IF solid = {} THEN <<>> ELSE SubSeq(s, SetMin(solid), SetMax(solid))

\* every maximal run of whitespace becomes one space
CollapseWhitespace(s) ==
    LET First(i) == s[i] \notin Whitespace \/ i = 1 \/ s[i-1] \notin Whitespace
        kept == SelectSeq(Indices(s), First)
    IN  List([k \in 1..Len(kept) |->
                 IF s[kept[k]] \in Whitespace THEN " " ELSE s[kept[k]]], Len(kept))

normalizar_texto(texto) ==
    IF ~Truthy(texto) THEN <<>>
    ELSE CollapseWhitespace(Strip(Lower(texto)))

(***************************************************************************)
(* re.search for the patterns the analyser uses: a pattern is a sequence of *)
(* items [cls, min, max] (a character class repeated min..max times,       *)
(* greedy, with backtracking).                                             *)
(***************************************************************************)
Digits == {"0","1","2","3","4","5","6","7","8","9"}

Rep(cls, lo, hi) == [cls |-> cls, min |-> lo, max |-> hi]

Lit(c) == Rep({c}, 1, 1)

RECURSIVE MatchFrom(_, _, _, _)
RECURSIVE MatchCount(_, _, _, _, _)

\* the index just after the match of items k.. of pat at pos, or 0 (an item
\* cannot repeat more often than there are characters left)
MatchFrom(pat, k, text, pos) ==
    IF k > Len(pat) THEN pos
    ELSE MatchCount(pat, k, text, pos,
                    IF pat[k].max > Len(text) - pos + 1
                    THEN Len(text) - pos + 1 ELSE pat[k].max)

MatchCount(pat, k, text, pos, n) ==
    IF n < pat[k].min THEN 0
    ELSE LET resto == MatchFrom(pat, k + 1, text, pos + n)
         IN  IF /\ pos + n - 1 <= Len(text)
                /\ \A i \in pos..(pos + n - 1) : text[i] \in pat[k].cls
                /\ resto # 0
             THEN resto
             ELSE MatchCount(pat, k, text, pos, n - 1)

\* re.search(pat, text).group(), or None
Search(pat, text) ==
    LET starts == {s \in 1..(Len(text) + 1) : MatchFrom(pat, 1, text, s) # 0}
    IN  IF starts = {} THEN None
        ELSE SubSeq(text, SetMin(starts),
                    MatchFrom(pat, 1, text, SetMin(starts)) - 1)

patrones_fecha ==
    << <<Rep(Digits,1,2), Lit("/"), Rep(Digits,1,2), Lit("/"), Rep(Digits,4,4)>>,
       <<Rep(Digits,1,2), Lit("-"), Rep(Digits,1,2), Lit("-"), Rep(Digits,4,4)>>,
       <<Rep(Digits,4,4), Lit("/"), Rep(Digits,1,2), Lit("/"), Rep(Digits,1,2)>>,
       <<Rep(Digits,4,4), Lit("-"), Rep(Digits,1,2), Lit("-"), Rep(Digits,1,2)>> >>

RECURSIVE FirstPattern(_, _, _)

FirstPattern(pats, k, text) ==
    IF k > Len(pats) THEN None
    ELSE LET m == Search(pats[k], text)
         IN  IF m # None THEN m ELSE FirstPattern(pats, k + 1, text)

extraer_fecha_texto(texto) == FirstPattern(patrones_fecha, 1, normalizar_texto(texto))

\* a list without its falsy elements: [f for f in xs if f]
Validos(xs) == SelectSeq(xs, Truthy)

\* set(list)
Range(xs) == {xs[i] : i \in 1..Len(xs)}

\* comparar_fechas without the "if f" filter: a source without a date counts
comparar_fechas_sin_filtro(fecha1, fecha2, fecha3) ==
    LET fechas == << IF Truthy(fecha1) THEN extraer_fecha_texto(fecha1) ELSE None,
                     IF Truthy(fecha2) THEN extraer_fecha_texto(fecha2) ELSE None,
                     IF Truthy(fecha3) THEN extraer_fecha_texto(fecha3) ELSE None >>
    IN  IF Len(Validos(fechas)) = 0
        THEN [coincide |-> FALSE, observaciones |-> "No se encontraron fechas válidas"]
        ELSE IF Cardinality(Range(fechas)) = 1
             THEN [coincide |-> TRUE, observaciones |-> "Todas las fechas coinciden"]
             ELSE [coincide |-> FALSE, observaciones |-> "Fechas diferentes encontradas"]

comparar_fechas(fecha1, fecha2, fecha3) ==
    LET fechas == << IF Truthy(fecha1) THEN extraer_fecha_texto(fecha1) ELSE None,
                     IF Truthy(fecha2) THEN extraer_fecha_texto(fecha2) ELSE None,
                     IF Truthy(fecha3) THEN extraer_fecha_texto(fecha3) ELSE None >>
        fechas_validas == Validos(fechas)
    IN  IF Len(fechas_validas) = 0
        THEN [coincide |-> FALSE, observaciones |-> "No se encontraron fechas válidas"]
        ELSE IF Cardinality(Range(fechas_validas)) = 1
             THEN [coincide |-> TRUE, observaciones |-> "Todas las fechas coinciden"]
             ELSE [coincide |-> FALSE, observaciones |-> "Fechas diferentes encontradas"]

(***************************************************************************)
(* Python float (IEEE-754 binary64) for the values the analyser computes,  *)
(* all in [0, 4): a vector of IntBits + FracBits bits, most significant    *)
(* first, bit i weighing 2^(IntBits - i).  Every operation computes the    *)
(* exact result and rounds it to MantBits significant bits, ties to even.  *)
(***************************************************************************)
MantBits == 53

IntBits == 2

ChunkBits == 15

FracChunks == 5

FracBits == FracChunks * ChunkBits

Width == IntBits + FracBits

FloatZero == List([i \in 1..Width |-> 0], Width)

\* v + one unit in position pos
Increment(v, pos) ==
    LET q == SetMax({i \in 1..pos : v[i] = 0})
    IN  List([i \in 1..Width |-> IF i = q THEN 1
                                 ELSE IF i > q /\ i <= pos THEN 0 ELSE v[i]], Width)

\* round-to-nearest-even of the exact value bits (+ a nonzero tail if sticky)
RoundDouble(bits, sticky) ==
    IF \A i \in 1..Width : bits[i] = 0 THEN bits
    ELSE LET last == SetMin({i \in 1..Width : bits[i] = 1}) + MantBits - 1
         IN  IF last >= Width THEN bits
             ELSE LET rest  == sticky \/ \E i \in (last + 2)..Width : bits[i] = 1
                      up    == bits[last + 1] = 1 /\ (rest \/ bits[last] = 1)
                      trunc == List([i \in 1..Width |->
                                        IF i <= last THEN bits[i] ELSE 0], Width)
                  IN  IF up THEN Increment(trunc, last) ELSE trunc

\* the j-th most significant of the n bits of the natural v
BitOf(v, j, n) == (v \div 2^(n - j)) % 2

RECURSIVE BitsValue(_, _, _)

\* the natural written by the bits x[lo..hi]
BitsValue(x, lo, hi) ==
    IF lo > hi THEN 0 ELSE 2 * BitsValue(x, lo, hi - 1) + x[hi]

\* A bit vector as its integer part and its FracChunks chunks of ChunkBits
\* fraction bits, and back
IntegerPart(x) == BitsValue(x, 1, IntBits)

Chunks(x) ==
    List([k \in 1..FracChunks |->
            BitsValue(x, IntBits + (k - 1) * ChunkBits + 1, IntBits + k * ChunkBits)],
         FracChunks)

FromChunks(v0, V) ==
    List([i \in 1..Width |->
            IF i <= IntBits THEN BitOf(v0, i, IntBits)
            ELSE BitOf(V[((i - IntBits - 1) \div ChunkBits) + 1],
                       ((i - IntBits - 1) % ChunkBits) + 1, ChunkBits)], Width)

RECURSIVE Remainder(_, _, _, _)

\* Long division by d, one chunk at a time, of the number with integer part
\* v0 and fraction chunks V: the remainder after chunk k
Remainder(v0, V, d, k) ==
    IF k = 0 THEN v0 % d
    ELSE (Remainder(v0, V, d, k - 1) * 2^ChunkBits + V[k]) % d

QuotientChunk(v0, V, d, k) ==
    (Remainder(v0, V, d, k - 1) * 2^ChunkBits + V[k]) \div d

LongDivision(v0, V, d) ==
    RoundDouble(FromChunks(v0 \div d,
                           List([k \in 1..FracChunks |-> QuotientChunk(v0, V, d, k)],
                                FracChunks)),
                Remainder(v0, V, d, FracChunks) # 0)

\* float(a) / float(b) for small naturals a, b
FloatDiv(a, b) == LongDivision(a, List([k \in 1..FracChunks |-> 0], FracChunks), b)

\* x / n for a positive int n
FloatDivInt(x, n) == LongDivision(IntegerPart(x), Chunks(x), n)

RECURSIVE CarryOut(_, _, _)

\* the carry out of chunk k of the exact sum of the fractions X and Y
CarryOut(X, Y, k) ==
    IF k > FracChunks THEN 0
    ELSE (X[k] + Y[k] + CarryOut(X, Y, k + 1)) \div 2^ChunkBits

AddChunks(x0, X, y0, Y) ==
    FromChunks(x0 + y0 + CarryOut(X, Y, 1),
               List([k \in 1..FracChunks |->
                       (X[k] + Y[k] + CarryOut(X, Y, k + 1)) % 2^ChunkBits], FracChunks))

\* x + y
FloatAdd(x, y) ==
    RoundDouble(AddChunks(IntegerPart(x), Chunks(x), IntegerPart(y), Chunks(y)), FALSE)

\* x >= y
FloatGE(x, y) ==
    \/ x = y
    \/ \E i \in 1..Width : /\ x[i] = 1 /\ y[i] = 0
                           /\ \A j \in 1..(i - 1) : x[j] = y[j]

RECURSIVE FloatSum(_)

\* sum(xs): left-to-right float additions starting from 0
FloatSum(xs) ==
    IF xs = <<>> THEN FloatZero
    ELSE FloatAdd(FloatSum(SubSeq(xs, 1, Len(xs) - 1)), xs[Len(xs)])

(***************************************************************************)
(* difflib.SequenceMatcher(None, a, b).ratio()   (no junk: the autojunk    *)
(* heuristic only applies to sequences of 200 or more elements)            *)
(***************************************************************************)
RECURSIVE RunLength(_, _, _, _, _, _)

\* length of the common run of a[i..ahi] and b[j..bhi] starting at i, j
RunLength(a, b, i, j, ahi, bhi) ==
    IF i > ahi \/ j > bhi \/ a[i] # b[j] THEN 0
    ELSE 1 + RunLength(a, b, i + 1, j + 1, ahi, bhi)

\* the longest common block of a[alo..ahi] and b[blo..bhi]; of the longest
\* blocks the one starting earliest in a, then earliest in b
find_longest_match(a, b, alo, ahi, blo, bhi) ==
    LET size  == SetMax({RunLength(a, b, i, j, ahi, bhi) : i \in alo..ahi, j \in blo..bhi})
        besti == SetMin({i \in alo..ahi :
                           \E j \in blo..bhi : RunLength(a, b, i, j, ahi, bhi) = size})
        bestj == SetMin({j \in blo..bhi : RunLength(a, b, besti, j, ahi, bhi) = size})
    IN  [i |-> besti, j |-> bestj, size |-> size]

RECURSIVE Matches(_, _, _, _, _, _)

\* total size of get_matching_blocks()
Matches(a, b, alo, ahi, blo, bhi) ==
    IF alo > ahi \/ blo > bhi THEN 0
    ELSE LET m == find_longest_match(a, b, alo, ahi, blo, bhi)
         IN  IF m.size = 0 THEN 0
             ELSE m.size
                  + Matches(a, b, alo, m.i - 1, blo, m.j - 1)
                  + Matches(a, b, m.i + m.size, ahi, m.j + m.size, bhi)

\* 2.0 * matches / (len(a) + len(b)), 1.0 when both are empty
ratio(a, b) ==
    IF Len(a) + Len(b) = 0 THEN FloatDiv(1, 1)
    ELSE FloatDiv(2 * Matches(a, b, 1, Len(a), 1, Len(b)), Len(a) + Len(b))

\* a stricter threshold: the float literal 0.95
UmbralSimilitud_alto == FloatDiv(95, 100)

\* the float literal 0.8
UmbralSimilitud == FloatDiv(8, 10)

NA_normalizado == <<"n", "/", "a">>

NombreValido(n) == Truthy(n) /\ n # NA_normalizado

\* the ratios of the pairs (i, j), i < j, in the order of the nested loops
Similitudes(nombres_validos) ==
    LET n == Len(nombres_validos)
        pares == IF n = 2 THEN << <<1, 2>> >>
                 ELSE IF n = 3 THEN << <<1, 2>>, <<1, 3>>, <<2, 3>> >>
                 ELSE <<>>
    IN  List([k \in 1..Len(pares) |->
                 ratio(nombres_validos[pares[k][1]], nombres_validos[pares[k][2]])],
             Len(pares))

comparar_nombres(nombre1, nombre2, nombre3) ==
    LET nombres == << IF Truthy(nombre1) THEN normalizar_texto(nombre1) ELSE <<>>,
                      IF Truthy(nombre2) THEN normalizar_texto(nombre2) ELSE <<>>,
                      IF Truthy(nombre3) THEN normalizar_texto(nombre3) ELSE <<>> >>
        nombres_validos == SelectSeq(nombres, NombreValido)
        similitudes == Similitudes(nombres_validos)
    IN  IF Len(nombres_validos) = 0
        THEN [coincide |-> FALSE, observaciones |-> "No se encontraron nombres válidos"]
        ELSE IF Len(similitudes) = 0
             THEN [coincide |-> TRUE, observaciones |-> "Solo un nombre disponible"]
             ELSE IF FloatGE(FloatDivInt(FloatSum(similitudes), Len(similitudes)),
                             UmbralSimilitud)
                  THEN [coincide |-> TRUE, observaciones |-> "Nombres similares"]
                  ELSE [coincide |-> FALSE, observaciones |-> "Nombres diferentes"]

(***************************************************************************)
(* Supplies.  A quantity is a Python int (a natural here), None, or one of *)
(* the two str sentinels the comparator introduces; they are kept apart as *)
(* integers so that quantities compare like the Python values do.          *)
(***************************************************************************)
CantidadNone == -1

CantidadNA == -2

Ausente == -3

\* the dict literal of __init__, in insertion order
sinonimos_insumos ==
    << [base |-> <<"c","a","t","e","t","e","r">>,
        variantes |-> << <<"c","a","t","e","t","e","r">>,
                       <<"s","o","n","d","a">>,
                       <<"t","u","b","o">> >>],
       [base |-> <<"g","a","s","a">>,
        variantes |-> << <<"g","a","s","a">>,
                       <<"c","o","m","p","r","e","s","a">>,
                       <<"g","a","s","a","s">> >>],
       [base |-> <<"s","u","t","u","r","a">>,
        variantes |-> << <<"s","u","t","u","r","a">>,
                       <<"h","i","l","o">>,
                       <<"p","u","n","t","o">> >>],
       [base |-> <<"b","i","s","t","u","r","i">>,
        variantes |-> << <<"b","i","s","t","u","r","i">>,
                       <<"c","u","c","h","i","l","l","a">>,
                       <<"e","s","c","a","l","p","e","l","o">> >>],
       [base |-> <<"a","g","u","j","a">>,
        variantes |-> << <<"a","g","u","j","a">>,
                       <<"i","n","y","e","c","t","o","r">>,
                       <<"p","u","n","c","i","o","n">> >>] >>

\* sub in text
Contains(text, sub) ==
    \E s \in 1..(Len(text) - Len(sub) + 1) : SubSeq(text, s, s + Len(sub) - 1) = sub

\* normalizar_insumo returning the last key of the table with a synonym in
\* the name instead of the first
normalizar_insumo_ultima(nombre_insumo) ==
    LET nombre_norm == normalizar_texto(nombre_insumo)
        Hit(k) == \E v \in 1..Len(sinonimos_insumos[k].variantes) :
                     Contains(nombre_norm, sinonimos_insumos[k].variantes[v])
        hits == {k \in 1..Len(sinonimos_insumos) : Hit(k)}
    IN  IF hits = {} THEN nombre_norm ELSE sinonimos_insumos[SetMax(hits)].base

normalizar_insumo(nombre_insumo) ==
    LET nombre_norm == normalizar_texto(nombre_insumo)
        Hit(k) == \E v \in 1..Len(sinonimos_insumos[k].variantes) :
                     Contains(nombre_norm, sinonimos_insumos[k].variantes[v])
        hits == {k \in 1..Len(sinonimos_insumos) : Hit(k)}
    IN  IF hits = {} THEN nombre_norm ELSE sinonimos_insumos[SetMin(hits)].base

\* extraer_nombres_cantidades keeping only the names whose quantity is a number
extraer_nombres_cantidades_conocidas(insumos) ==
    LET Nombre(i) == normalizar_insumo(Get(insumos[i], "nombre", <<>>))
        Cantidad(n) == Get(insumos[SetMax({i \in 1..Len(insumos) : Nombre(i) = n})],
                           "cantidad", CantidadNA)
        nombres == {Nombre(i) : i \in 1..Len(insumos)} \ {<<>>}
    IN  [n \in {m \in nombres : Cantidad(m) >= 0} |-> Cantidad(n)]

\* extraer_nombres_cantidades keeping the first entry of a canonical name
extraer_nombres_cantidades_primera(insumos) ==
    LET Nombre(i) == normalizar_insumo(Get(insumos[i], "nombre", <<>>))
        nombres == {Nombre(i) : i \in 1..Len(insumos)} \ {<<>>}
    IN  [n \in nombres |->
            Get(insumos[SetMin({i \in 1..Len(insumos) : Nombre(i) = n})],
                "cantidad", CantidadNA)]

\* the dict canonical name -> quantity of one source; a later entry of the
\* list overwrites an earlier one with the same canonical name
extraer_nombres_cantidades(insumos) ==
    LET Nombre(i) == normalizar_insumo(Get(insumos[i], "nombre", <<>>))
        nombres == {Nombre(i) : i \in 1..Len(insumos)} \ {<<>>}
    IN  [n \in nombres |->
            Get(insumos[SetMax({i \in 1..Len(insumos) : Nombre(i) = n})],
                "cantidad", CantidadNA)]

\* comparar_insumos without the "if c != 'Ausente'" filter: absence counts
comparar_insumos_con_ausentes(insumos1, insumos2, insumos3) ==
    LET ins1 == extraer_nombres_cantidades(insumos1)
        ins2 == extraer_nombres_cantidades(insumos2)
        ins3 == extraer_nombres_cantidades(insumos3)
        todos_insumos == DOMAIN ins1 \cup DOMAIN ins2 \cup DOMAIN ins3
        cantidades(insumo) ==
            {Get(ins1, insumo, Ausente), Get(ins2, insumo, Ausente),
             Get(ins3, insumo, Ausente)}
        discrepancias_insumos ==
            {insumo \in todos_insumos : Cardinality(cantidades(insumo)) > 1}
    IN  IF todos_insumos = {}
        THEN [coincide |-> FALSE,
              observaciones |-> "No se encontraron insumos en ningún documento"]
        ELSE IF discrepancias_insumos = {}
             THEN [coincide |-> TRUE, observaciones |-> "Insumos coinciden"]
             ELSE [coincide |-> FALSE, observaciones |-> "Discrepancias"]

comparar_insumos(insumos1, insumos2, insumos3) ==
    LET ins1 == extraer_nombres_cantidades(insumos1)
        ins2 == extraer_nombres_cantidades(insumos2)
        ins3 == extraer_nombres_cantidades(insumos3)
        todos_insumos == DOMAIN ins1 \cup DOMAIN ins2 \cup DOMAIN ins3
        cantidades_presentes(insumo) ==
            {Get(ins1, insumo, Ausente), Get(ins2, insumo, Ausente),
             Get(ins3, insumo, Ausente)} \ {Ausente}
        discrepancias_insumos ==
            {insumo \in todos_insumos : Cardinality(cantidades_presentes(insumo)) > 1}
    IN  IF todos_insumos = {}
        THEN [coincide |-> FALSE,
              observaciones |-> "No se encontraron insumos en ningún documento"]
        ELSE IF discrepancias_insumos = {}
             THEN [coincide |-> TRUE, observaciones |-> "Insumos coinciden"]
             ELSE [coincide |-> FALSE, observaciones |-> "Discrepancias"]

(***************************************************************************)
(* Traceability of the internal (type 1) record                            *)
(***************************************************************************)
RECURSIVE Join(_, _)

\* sep.join(xs) for a list of str written as TLA+ strings
Join(xs, sep) ==
    IF Len(xs) = 0 THEN ""
    ELSE IF Len(xs) = 1 THEN xs[1]
    ELSE xs[1] \o sep \o Join(Tail(xs), sep)

\* the keys of the dict elementos, in insertion order, and for each the key
\* of etiquetas_trazabilidad it is read from
NombresElementos == <<"referencias", "lotes", "udi", "fechas_venc">>

ClavesTrazabilidad ==
    <<"tiene_referencias", "tiene_lotes", "tiene_udi", "tiene_fechas_vencimiento">>

\* [k for k, v in elementos.items() if Cond(v)], for Cond the identity or not
Nombrados(posiciones) ==
    LET EnPosiciones(k) == k \in posiciones
        ks == SelectSeq(<<1, 2, 3, 4>>, EnPosiciones)
    IN  List([i \in 1..Len(ks) |-> NombresElementos[ks[i]]], Len(ks))

\* analizar_trazabilidad asking for all four indicators (len(presentes) > 3)
analizar_trazabilidad_todos(resultado) ==
    LET trazabilidad == Get(resultado, "etiquetas_trazabilidad", <<>>)
        presentes == {k \in 1..4 : Get(trazabilidad, ClavesTrazabilidad[k], FALSE)}
        ausentes == (1..4) \ presentes
    IN  IF DOMAIN resultado = {}
        THEN [coincide |-> FALSE, observaciones |-> "No hay datos del Tipo 1 (Interno)"]
        ELSE IF DOMAIN trazabilidad = {}
        THEN [coincide |-> FALSE, observaciones |-> "No se encontraron datos de trazabilidad"]
        ELSE IF Cardinality(presentes) > 3
        THEN [coincide |-> TRUE,
              observaciones |-> "Trazabilidad completa: " \o Join(Nombrados(presentes), ", ")]
        ELSE IF Cardinality(presentes) >= 1
        THEN [coincide |-> FALSE,
              observaciones |-> "Trazabilidad parcial. Presente: "
                                \o Join(Nombrados(presentes), ", ")
                                \o ". Falta: " \o Join(Nombrados(ausentes), ", ")]
        ELSE [coincide |-> FALSE, observaciones |-> "Sin datos de trazabilidad"]

analizar_trazabilidad(resultado) ==
    LET trazabilidad == Get(resultado, "etiquetas_trazabilidad", <<>>)
        presentes == {k \in 1..4 : Get(trazabilidad, ClavesTrazabilidad[k], FALSE)}
        ausentes == (1..4) \ presentes
    IN  IF DOMAIN resultado = {}
        THEN [coincide |-> FALSE, observaciones |-> "No hay datos del Tipo 1 (Interno)"]
        ELSE IF DOMAIN trazabilidad = {}
        THEN [coincide |-> FALSE, observaciones |-> "No se encontraron datos de trazabilidad"]
        ELSE IF Cardinality(presentes) >= 3
        THEN [coincide |-> TRUE,
              observaciones |-> "Trazabilidad completa: " \o Join(Nombrados(presentes), ", ")]
        ELSE IF Cardinality(presentes) >= 1
        THEN [coincide |-> FALSE,
              observaciones |-> "Trazabilidad parcial. Presente: "
                                \o Join(Nombrados(presentes), ", ")
                                \o ". Falta: " \o Join(Nombrados(ausentes), ", ")]
        ELSE [coincide |-> FALSE, observaciones |-> "Sin datos de trazabilidad"]

(***************************************************************************)
(* procesar_resultados: the seven comparisons, in order                    *)
(***************************************************************************)
NA == <<"N","/","A">>

Puntos == <<".",".",".">>

DigitChars == <<"0","1","2","3","4","5","6","7","8","9">>

RECURSIVE Decimal(_)

\* str(n) for a natural n
Decimal(n) ==
    IF n < 10 THEN <<DigitChars[n + 1]>>
    ELSE Decimal(n \div 10) \o <<DigitChars[(n % 10) + 1]>>

\* f"{len(lista)} insumos"
CuentaInsumos(lista) == Decimal(Len(lista)) \o <<" ","i","n","s","u","m","o","s">>

DiscrepanciaItem(campo, a1, a2, a3, coincide, observaciones, criticidad) ==
    [campo |-> campo, tipo_anexo1 |-> a1, tipo_anexo2 |-> a2, tipo_anexo3 |-> a3,
     coincide |-> coincide, observaciones |-> observaciones, criticidad |-> criticidad]

\* len(r.get('datos_procedimiento', '')) raises TypeError on None
ProcedimientoLanzaTypeError(r) == Get(r, "datos_procedimiento", <<>>) = None

\* r.get(k, 'N/A')[:limite] + '...' if len(r.get(k, '')) > limite else r.get(k, 'N/A')
ProcedimientoMostrado(r, limite) ==
    IF Len(Get(r, "datos_procedimiento", <<>>)) > limite
    THEN SubSeq(Get(r, "datos_procedimiento", NA), 1, limite) \o Puntos
    ELSE Get(r, "datos_procedimiento", NA)

LimiteProcedimiento == 50

\* the item of a comparison that returned c = (coincide, observaciones):
\* criticidad=<tier> if not coincide else "BAJA"
ItemComparado(campo, a1, a2, a3, c, criticidad) ==
    DiscrepanciaItem(campo, a1, a2, a3, c.coincide, c.observaciones,
                     IF ~c.coincide THEN criticidad ELSE "BAJA")

\* the item of a comparison with criticidad=<tier> whatever it returned
ItemFijo(campo, a1, a2, a3, c, criticidad) ==
    DiscrepanciaItem(campo, a1, a2, a3, c.coincide, c.observaciones, criticidad)

\* ItemFecha with the severity fixed to the tier of the field
ItemFecha_criticidad_fija(r1, r2, r3) ==
    ItemFijo("Fecha de cirugía/reporte",
             Get(r1, "fecha_reporte", NA), Get(r2, "fecha_reporte", NA),
             Get(r3, "fecha_reporte", NA),
             comparar_fechas(Get(r1, "fecha_reporte", <<>>),
                             Get(r2, "fecha_reporte", <<>>),
                             Get(r3, "fecha_reporte", <<>>)),
             "ALTA")

ItemFecha(r1, r2, r3) ==
    ItemComparado("Fecha de cirugía/reporte",
                  Get(r1, "fecha_reporte", NA), Get(r2, "fecha_reporte", NA),
                  Get(r3, "fecha_reporte", NA),
                  comparar_fechas(Get(r1, "fecha_reporte", <<>>),
                                  Get(r2, "fecha_reporte", <<>>),
                                  Get(r3, "fecha_reporte", <<>>)),
                  "ALTA")

ItemPaciente(r1, r2, r3) ==
    ItemComparado("Datos del paciente",
                  Get(r1, "nombre_paciente", NA), Get(r2, "nombre_paciente", NA),
                  Get(r3, "nombre_paciente", NA),
                  comparar_nombres(Get(r1, "nombre_paciente", <<>>),
                                   Get(r2, "nombre_paciente", <<>>),
                                   Get(r3, "nombre_paciente", <<>>)),
                  "ALTA")

ItemProcedimiento(r1, r2, r3) ==
    ItemComparado("Datos del procedimiento",
                  ProcedimientoMostrado(r1, LimiteProcedimiento),
                  ProcedimientoMostrado(r2, LimiteProcedimiento),
                  ProcedimientoMostrado(r3, LimiteProcedimiento),
                  comparar_nombres(Get(r1, "datos_procedimiento", <<>>),
                                   Get(r2, "datos_procedimiento", <<>>),
                                   Get(r3, "datos_procedimiento", <<>>)),
                  "MEDIA")

ItemMedico(r1, r2, r3) ==
    ItemComparado("Médico responsable",
                  Get(r1, "medico_responsable", NA), Get(r2, "cirujano", NA),
                  Get(r3, "medico_responsable", NA),
                  comparar_nombres(Get(r1, "medico_responsable", <<>>),
                                   Get(r2, "cirujano", <<>>),
                                   Get(r3, "medico_responsable", <<>>)),
                  "MEDIA")

\* criticidad="BAJA" in the code, whatever the comparison returned
ItemLugar(r1, r2, r3) ==
    ItemFijo("Lugar o ciudad",
             Get(r1, "ciudad_lugar", NA), Get(r2, "ciudad_lugar", NA),
             Get(r3, "ciudad_lugar", NA),
             comparar_nombres(Get(r1, "ciudad_lugar", <<>>),
                              Get(r2, "ciudad_lugar", <<>>),
                              Get(r3, "ciudad_lugar", <<>>)),
             "BAJA")

ItemInsumos(r1, r2, r3) ==
    ItemComparado("Insumos utilizados",
                  CuentaInsumos(Get(r1, "insumos_utilizados", <<>>)),
                  CuentaInsumos(Get(r2, "insumos_utilizados", <<>>)),
                  CuentaInsumos(Get(r3, "insumos_mencionados", <<>>)),
                  comparar_insumos(Get(r1, "insumos_utilizados", <<>>),
                                   Get(r2, "insumos_utilizados", <<>>),
                                   Get(r3, "insumos_mencionados", <<>>)),
                  "ALTA")

\* ItemTrazabilidad with the severity MEDIA for a traceability mismatch
ItemTrazabilidad_media(r1) ==
    ItemComparado("Trazabilidad (REF/LOT)",
                  IF DOMAIN r1 # {} THEN <<"E","v","a","l","u","a","d","o">> ELSE NA,
                  <<"N","o"," ","a","p","l","i","c","a">>,
                  <<"N","o"," ","a","p","l","i","c","a">>,
                  analizar_trazabilidad(r1),
                  "MEDIA")

ItemTrazabilidad(r1) ==
    ItemComparado("Trazabilidad (REF/LOT)",
                  IF DOMAIN r1 # {} THEN <<"E","v","a","l","u","a","d","o">> ELSE NA,
                  <<"N","o"," ","a","p","l","i","c","a">>,
                  <<"N","o"," ","a","p","l","i","c","a">>,
                  analizar_trazabilidad(r1),
                  "ALTA")

\* the returned list, or the TypeError raised while the third item is built
\* (the list built so far is local and is lost)
procesar_resultados(r1, r2, r3) ==
    IF \/ ProcedimientoLanzaTypeError(r1)
       \/ ProcedimientoLanzaTypeError(r2)
       \/ ProcedimientoLanzaTypeError(r3)
    THEN [excepcion |-> "TypeError", valor |-> <<>>]
    ELSE [excepcion |-> "",
          valor |-> << ItemFecha(r1, r2, r3), ItemPaciente(r1, r2, r3),
                       ItemProcedimiento(r1, r2, r3), ItemMedico(r1, r2, r3),
                       ItemLugar(r1, r2, r3), ItemInsumos(r1, r2, r3),
                       ItemTrazabilidad(r1) >>]

(***************************************************************************)
(* generar_resumen_ejecutivo                                               *)
(***************************************************************************)
\* the positions of the items of lista that match
Coincidentes(lista) == {i \in 1..Len(lista) : lista[i].coincide}

\* [d for d in lista if d.criticidad == 'ALTA' and not d.coincide], as positions
AltaNoCoincide(lista) ==
    {i \in 1..Len(lista) : lista[i].criticidad = "ALTA" /\ ~lista[i].coincide}

\* PorcentajeRedondeado truncating to two decimals instead of rounding
PorcentajeTruncado(num, den) == (num * 10000) \div den

\* round((num / den) * 100, 2), in hundredths; ties go to the even hundredth
PorcentajeRedondeado(num, den) ==
    LET q == (num * 10000) \div den
        r == (num * 10000) % den
    IN  IF 2 * r > den \/ (2 * r = den /\ q % 2 = 1) THEN q + 1 ELSE q

\* _generar_recomendacion with the urgent threshold off by one (> 3)
_generar_recomendacion_umbral(lista) ==
    LET alta_criticidad == Cardinality(AltaNoCoincide(lista))
    IN  IF alta_criticidad > 3
        THEN "REVISION URGENTE: Múltiples discrepancias críticas detectadas"
        ELSE IF alta_criticidad >= 1
        THEN "REVISION NECESARIA: Discrepancias críticas en campos importantes"
        ELSE "REVISION OPCIONAL: Solo discrepancias menores detectadas"

_generar_recomendacion(lista) ==
    LET alta_criticidad == Cardinality(AltaNoCoincide(lista))
    IN  IF alta_criticidad >= 3
        THEN "REVISION URGENTE: Múltiples discrepancias críticas detectadas"
        ELSE IF alta_criticidad >= 1
        THEN "REVISION NECESARIA: Discrepancias críticas en campos importantes"
        ELSE "REVISION OPCIONAL: Solo discrepancias menores detectadas"

\* criticidad_counts without the "if not d.coincide" filter
criticidad_counts_todos(lista) ==
    [c \in {lista[i].criticidad : i \in 1..Len(lista)} |->
        Cardinality({i \in 1..Len(lista) : lista[i].criticidad = c})]

\* requiere_revision_manual without the severity test
requiere_revision_cualquiera(lista) ==
    \E i \in 1..Len(lista) : ~lista[i].coincide

\* the dict the loop over the non-matching items fills: severity -> count
criticidad_counts(lista) ==
    [c \in {lista[i].criticidad : i \in {j \in 1..Len(lista) : ~lista[j].coincide}} |->
        Cardinality({i \in 1..Len(lista) :
                       ~lista[i].coincide /\ lista[i].criticidad = c})]

\* any(d.criticidad == 'ALTA' and not d.coincide for d in lista)
requiere_revision_manual(lista) ==
    \E i \in 1..Len(lista) : lista[i].criticidad = "ALTA" /\ ~lista[i].coincide

generar_resumen_ejecutivo(lista) ==
    LET total_campos == Len(lista)
        coincidencias == Cardinality(Coincidentes(lista))
    IN  [total_campos_evaluados |-> total_campos,
         campos_coincidentes |-> coincidencias,
         campos_con_discrepancias |-> total_campos - coincidencias,
         porcentaje_coincidencia |-> PorcentajeRedondeado(coincidencias, total_campos),
         discrepancias_por_criticidad |-> criticidad_counts(lista),
         requiere_revision_manual |-> requiere_revision_manual(lista),
         recomendacion |-> _generar_recomendacion(lista)]

(***************************************************************************)
(* The interface's own AnalizadorDiscrepancias (src/interfaz_ocr.py): the  *)
(* same comparisons with other rationale texts, a shorter procedure text   *)
(* and the recommendation read from the severity counts.                   *)
(***************************************************************************)
comparar_fechas_interfaz(fecha1, fecha2, fecha3) ==
    LET fechas == << IF Truthy(fecha1) THEN extraer_fecha_texto(fecha1) ELSE None,
                     IF Truthy(fecha2) THEN extraer_fecha_texto(fecha2) ELSE None,
                     IF Truthy(fecha3) THEN extraer_fecha_texto(fecha3) ELSE None >>
        fechas_validas == Validos(fechas)
    IN  IF Len(fechas_validas) = 0
        THEN [coincide |-> FALSE, observaciones |-> "No se encontraron fechas válidas"]
        ELSE IF Cardinality(Range(fechas_validas)) = 1
             THEN [coincide |-> TRUE, observaciones |-> "Todas las fechas coinciden"]
             ELSE [coincide |-> FALSE, observaciones |-> "Fechas diferentes"]

comparar_nombres_interfaz(nombre1, nombre2, nombre3) ==
    LET nombres == << IF Truthy(nombre1) THEN normalizar_texto(nombre1) ELSE <<>>,
                      IF Truthy(nombre2) THEN normalizar_texto(nombre2) ELSE <<>>,
                      IF Truthy(nombre3) THEN normalizar_texto(nombre3) ELSE <<>> >>
        nombres_validos == SelectSeq(nombres, NombreValido)
        similitudes == Similitudes(nombres_validos)
    IN  IF Len(nombres_validos) = 0
        THEN [coincide |-> FALSE, observaciones |-> "No se encontraron nombres válidos"]
        ELSE IF Len(similitudes) = 0
             THEN [coincide |-> TRUE, observaciones |-> "Solo un nombre disponible"]
             ELSE IF FloatGE(FloatDivInt(FloatSum(similitudes), Len(similitudes)),
                             UmbralSimilitud)
                  THEN [coincide |-> TRUE, observaciones |-> "Nombres similares"]
                  ELSE [coincide |-> FALSE, observaciones |-> "Nombres diferentes"]

comparar_insumos_interfaz(insumos1, insumos2, insumos3) ==
    LET ins1 == extraer_nombres_cantidades(insumos1)
        ins2 == extraer_nombres_cantidades(insumos2)
        ins3 == extraer_nombres_cantidades(insumos3)
        todos_insumos == DOMAIN ins1 \cup DOMAIN ins2 \cup DOMAIN ins3
        cantidades_presentes(insumo) ==
            {Get(ins1, insumo, Ausente), Get(ins2, insumo, Ausente),
             Get(ins3, insumo, Ausente)} \ {Ausente}
        discrepancias_insumos ==
            {insumo \in todos_insumos : Cardinality(cantidades_presentes(insumo)) > 1}
    IN  IF todos_insumos = {}
        THEN [coincide |-> FALSE, observaciones |-> "No se encontraron insumos"]
        ELSE IF discrepancias_insumos = {}
             THEN [coincide |-> TRUE, observaciones |-> "Insumos coinciden"]
             ELSE [coincide |-> FALSE, observaciones |-> "Discrepancias"]

analizar_trazabilidad_interfaz(resultado) ==
    LET trazabilidad == Get(resultado, "etiquetas_trazabilidad", <<>>)
        presentes == {k \in 1..4 : Get(trazabilidad, ClavesTrazabilidad[k], FALSE)}
    IN  IF DOMAIN resultado = {}
        THEN [coincide |-> FALSE, observaciones |-> "No hay datos del Tipo 1"]
        ELSE IF DOMAIN trazabilidad = {}
        THEN [coincide |-> FALSE, observaciones |-> "Sin datos de trazabilidad"]
        ELSE IF Cardinality(presentes) >= 3
        THEN [coincide |-> TRUE,
              observaciones |-> "Trazabilidad completa: " \o Join(Nombrados(presentes), ", ")]
        ELSE IF Cardinality(presentes) >= 1
        THEN [coincide |-> FALSE,
              observaciones |-> "Trazabilidad parcial: " \o Join(Nombrados(presentes), ", ")]
        ELSE [coincide |-> FALSE, observaciones |-> "Sin trazabilidad"]

LimiteProcedimientoInterfaz == 30

procesar_resultados_interfaz(r1, r2, r3) ==
    IF \/ ProcedimientoLanzaTypeError(r1)
       \/ ProcedimientoLanzaTypeError(r2)
       \/ ProcedimientoLanzaTypeError(r3)
    THEN [excepcion |-> "TypeError", valor |-> <<>>]
    ELSE [excepcion |-> "",
          valor |->
            << ItemComparado("Fecha de cirugía/reporte",
                             Get(r1, "fecha_reporte", NA), Get(r2, "fecha_reporte", NA),
                             Get(r3, "fecha_reporte", NA),
                             comparar_fechas_interfaz(Get(r1, "fecha_reporte", <<>>),
                                                      Get(r2, "fecha_reporte", <<>>),
                                                      Get(r3, "fecha_reporte", <<>>)),
                             "ALTA"),
               ItemComparado("Datos del paciente",
                             Get(r1, "nombre_paciente", NA), Get(r2, "nombre_paciente", NA),
                             Get(r3, "nombre_paciente", NA),
                             comparar_nombres_interfaz(Get(r1, "nombre_paciente", <<>>),
                                                       Get(r2, "nombre_paciente", <<>>),
                                                       Get(r3, "nombre_paciente", <<>>)),
                             "ALTA"),
               ItemComparado("Datos del procedimiento",
                             ProcedimientoMostrado(r1, LimiteProcedimientoInterfaz),
                             ProcedimientoMostrado(r2, LimiteProcedimientoInterfaz),
                             ProcedimientoMostrado(r3, LimiteProcedimientoInterfaz),
                             comparar_nombres_interfaz(Get(r1, "datos_procedimiento", <<>>),
                                                       Get(r2, "datos_procedimiento", <<>>),
                                                       Get(r3, "datos_procedimiento", <<>>)),
                             "MEDIA"),
               ItemComparado("Médico responsable",
                             Get(r1, "medico_responsable", NA), Get(r2, "cirujano", NA),
                             Get(r3, "medico_responsable", NA),
                             comparar_nombres_interfaz(Get(r1, "medico_responsable", <<>>),
                                                       Get(r2, "cirujano", <<>>),
                                                       Get(r3, "medico_responsable", <<>>)),
                             "MEDIA"),
               ItemFijo("Lugar o ciudad",
                        Get(r1, "ciudad_lugar", NA), Get(r2, "ciudad_lugar", NA),
                        Get(r3, "ciudad_lugar", NA),
                        comparar_nombres_interfaz(Get(r1, "ciudad_lugar", <<>>),
                                                  Get(r2, "ciudad_lugar", <<>>),
                                                  Get(r3, "ciudad_lugar", <<>>)),
                        "BAJA"),
               ItemComparado("Insumos utilizados",
                             CuentaInsumos(Get(r1, "insumos_utilizados", <<>>)),
                             CuentaInsumos(Get(r2, "insumos_utilizados", <<>>)),
                             CuentaInsumos(Get(r3, "insumos_mencionados", <<>>)),
                             comparar_insumos_interfaz(Get(r1, "insumos_utilizados", <<>>),
                                                       Get(r2, "insumos_utilizados", <<>>),
                                                       Get(r3, "insumos_mencionados", <<>>)),
                             "ALTA"),
               ItemComparado("Trazabilidad (REF/LOT)",
                             IF DOMAIN r1 # {} THEN <<"E","v","a","l","u","a","d","o">> ELSE NA,
                             <<"N","o"," ","a","p","l","i","c","a">>,
                             <<"N","o"," ","a","p","l","i","c","a">>,
                             analizar_trazabilidad_interfaz(r1),
                             "ALTA") >>]

\* recomendacion_interfaz with the urgent threshold off by one (> 3)
recomendacion_interfaz_umbral(counts) ==
    IF Get(counts, "ALTA", 0) > 3
    THEN "REVISION URGENTE: Múltiples discrepancias críticas"
    ELSE IF Get(counts, "ALTA", 0) >= 1
    THEN "REVISION NECESARIA: Discrepancias críticas detectadas"
    ELSE "REVISION OPCIONAL: Solo discrepancias menores"

\* the recommendation, from criticidad_counts.get('ALTA', 0)
recomendacion_interfaz(counts) ==
    IF Get(counts, "ALTA", 0) >= 3
    THEN "REVISION URGENTE: Múltiples discrepancias críticas"
    ELSE IF Get(counts, "ALTA", 0) >= 1
    THEN "REVISION NECESARIA: Discrepancias críticas detectadas"
    ELSE "REVISION OPCIONAL: Solo discrepancias menores"

generar_resumen_ejecutivo_interfaz(lista) ==
    LET total_campos == Len(lista)
        coincidencias == Cardinality(Coincidentes(lista))
    IN  [total_campos_evaluados |-> total_campos,
         campos_coincidentes |-> coincidencias,
         campos_con_discrepancias |-> total_campos - coincidencias,
         porcentaje_coincidencia |-> PorcentajeRedondeado(coincidencias, total_campos),
         discrepancias_por_criticidad |-> criticidad_counts(lista),
         requiere_revision_manual |-> requiere_revision_manual(lista),
         recomendacion |-> recomendacion_interfaz(criticidad_counts(lista))]

(***************************************************************************)
(* The description extractor (src/smart_ocr.py): re.findall under          *)
(* re.IGNORECASE for the supply patterns, which are sequences of items     *)
(* like those above.                                                       *)
(***************************************************************************)
\* the most repetitions of a starred item that are tried: no text is longer
MaxRepeticiones == 40

\* a character class under re.IGNORECASE: either case of each of its letters
SinCaja(cls) ==
    cls \cup {LowerChar(c) : c \in cls}
        \cup {Mayusculas[i] : i \in {j \in 1..Len(Minusculas) : Minusculas[j] \in cls}}

\* literal text under re.IGNORECASE
Textual(w) == [i \in 1..Len(w) |-> Rep(SinCaja({w[i]}), 1, 1)]

\* [^\n], over the characters of the texts
NoSalto ==
    (Range(Mayusculas) \cup Range(Minusculas) \cup Digits \cup Whitespace
        \cup {".", ",", ":", ";", "-", "/", "(", ")"}) \ {"\n"}

RECURSIVE FindAll(_, _, _)

\* re.findall(pat, text) from pos on: the matches, leftmost first, none
\* overlapping another
FindAll(pat, text, pos) ==
    LET starts == {i \in pos..(Len(text) + 1) : MatchFrom(pat, 1, text, i) # 0}
        desde == SetMin(starts)
        hasta == MatchFrom(pat, 1, text, desde)
    IN  IF starts = {} THEN <<>>
        ELSE <<SubSeq(text, desde, hasta - 1)>>
                 \o FindAll(pat, text, IF hasta = desde THEN desde + 1 ELSE hasta)

RECURSIVE Split(_, _)

\* text.split(sep), sep one character
Split(text, sep) ==
    LET cortes == {i \in 1..Len(text) : text[i] = sep}
    IN  IF cortes = {} THEN <<text>>
        ELSE <<SubSeq(text, 1, SetMin(cortes) - 1)>>
                 \o Split(SubSeq(text, SetMin(cortes) + 1, Len(text)), sep)

\* the list of (pattern, normalized_name) pairs of _extract_mentioned_supplies
variants ==
    << \* osteosintesis\s+encefalica?\s*[^\n]*
       [patron |-> Textual(<<"o","s","t","e","o","s","i","n","t","e","s","i","s">>)
                   \o <<Rep(Whitespace, 1, MaxRepeticiones)>>
                   \o Textual(<<"e","n","c","e","f","a","l","i","c">>)
                   \o <<Rep(SinCaja({"a"}), 0, 1), Rep(Whitespace, 0, MaxRepeticiones), Rep(NoSalto, 0, MaxRepeticiones)>>,
        nombre |-> <<"O","s","t","e","o","s","í","n","t","e","s","i","s"," ","E","n","c","e","f","á","l","i","c","a">>],
       \* torn[illo]*\s*encefalic[oa]?[^\n]*
       [patron |-> Textual(<<"t","o","r","n">>)
                   \o <<Rep(SinCaja({"i","l","l","o"}), 0, MaxRepeticiones), Rep(Whitespace, 0, MaxRepeticiones)>>
                   \o Textual(<<"e","n","c","e","f","a","l","i","c">>)
                   \o <<Rep(SinCaja({"o","a"}), 0, 1), Rep(NoSalto, 0, MaxRepeticiones)>>,
        nombre |-> <<"T","o","r","n","i","l","l","o"," ","E","n","c","e","f","á","l","i","c","o">>],
       \* placa\s*curv[ae]?nerv?[^\n]*
       [patron |-> Textual(<<"p","l","a","c","a">>)
                   \o <<Rep(Whitespace, 0, MaxRepeticiones)>>
                   \o Textual(<<"c","u","r","v">>)
                   \o <<Rep(SinCaja({"a","e"}), 0, 1)>>
                   \o Textual(<<"n","e","r">>)
                   \o <<Rep(SinCaja({"v"}), 0, 1), Rep(NoSalto, 0, MaxRepeticiones)>>,
        nombre |-> <<"P","l","a","c","a"," ","C","u","r","v","a","N","e","r","v">>],
       \* pin\s*smartman[^\n]*
       [patron |-> Textual(<<"p","i","n">>)
                   \o <<Rep(Whitespace, 0, MaxRepeticiones)>>
                   \o Textual(<<"s","m","a","r","t","m","a","n">>)
                   \o <<Rep(NoSalto, 0, MaxRepeticiones)>>,
        nombre |-> <<"P","i","n"," ","S","m","a","r","t","m","a","n">>],
       \* dispositivo[s]?\s+de\s+fijaci[óo]n[^\n]*
       [patron |-> Textual(<<"d","i","s","p","o","s","i","t","i","v","o">>)
                   \o <<Rep(SinCaja({"s"}), 0, 1), Rep(Whitespace, 1, MaxRepeticiones)>>
                   \o Textual(<<"d","e">>)
                   \o <<Rep(Whitespace, 1, MaxRepeticiones)>>
                   \o Textual(<<"f","i","j","a","c","i">>)
                   \o <<Rep(SinCaja({"ó","o"}), 1, 1)>>
                   \o Textual(<<"n">>)
                   \o <<Rep(NoSalto, 0, MaxRepeticiones)>>,
        nombre |-> <<"D","i","s","p","o","s","i","t","i","v","o"," ","d","e"," ","F","i","j","a","c","i","ó","n">>],
       \* dispositivo[s]?\s+de\s+osteosintesis[^\n]*
       [patron |-> Textual(<<"d","i","s","p","o","s","i","t","i","v","o">>)
                   \o <<Rep(SinCaja({"s"}), 0, 1), Rep(Whitespace, 1, MaxRepeticiones)>>
                   \o Textual(<<"d","e">>)
                   \o <<Rep(Whitespace, 1, MaxRepeticiones)>>
                   \o Textual(<<"o","s","t","e","o","s","i","n","t","e","s","i","s">>)
                   \o <<Rep(NoSalto, 0, MaxRepeticiones)>>,
        nombre |-> <<"D","i","s","p","o","s","i","t","i","v","o"," ","d","e"," ","O","s","t","e","o","s","í","n","t","e","s","i","s">>],
       \* fractura[s]?\s+[^\n]*
       [patron |-> Textual(<<"f","r","a","c","t","u","r","a">>)
                   \o <<Rep(SinCaja({"s"}), 0, 1), Rep(Whitespace, 1, MaxRepeticiones), Rep(NoSalto, 0, MaxRepeticiones)>>,
        nombre |-> <<"M","a","n","e","j","o"," ","d","e"," ","F","r","a","c","t","u","r","a","s">>],
       \* fijaci[óo]n\s+[^\n]*
       [patron |-> Textual(<<"f","i","j","a","c","i">>)
                   \o <<Rep(SinCaja({"ó","o"}), 1, 1)>>
                   \o Textual(<<"n">>)
                   \o <<Rep(Whitespace, 1, MaxRepeticiones), Rep(NoSalto, 0, MaxRepeticiones)>>,
        nombre |-> <<"F","i","j","a","c","i","ó","n"," ","Q","u","i","r","ú","r","g","i","c","a">>],
       \* reducci[óo]n\s+[^\n]*
       [patron |-> Textual(<<"r","e","d","u","c","c","i">>)
                   \o <<Rep(SinCaja({"ó","o"}), 1, 1)>>
                   \o Textual(<<"n">>)
                   \o <<Rep(Whitespace, 1, MaxRepeticiones), Rep(NoSalto, 0, MaxRepeticiones)>>,
        nombre |-> <<"R","e","d","u","c","c","i","ó","n"," ","Q","u","i","r","ú","r","g","i","c","a">>],
       \* craneofacial[^\n]*
       [patron |-> Textual(<<"c","r","a","n","e","o","f","a","c","i","a","l">>)
                   \o <<Rep(NoSalto, 0, MaxRepeticiones)>>,
        nombre |-> <<"C","i","r","u","g","í","a"," ","C","r","a","n","e","o","f","a","c","i","a","l">>],
       \* maxilofacial[^\n]*
       [patron |-> Textual(<<"m","a","x","i","l","o","f","a","c","i","a","l">>)
                   \o <<Rep(NoSalto, 0, MaxRepeticiones)>>,
        nombre |-> <<"C","i","r","u","g","í","a"," ","M","a","x","i","l","o","f","a","c","i","a","l">>],
       \* temporal[^\n]*fractura[^\n]*
       [patron |-> Textual(<<"t","e","m","p","o","r","a","l">>)
                   \o <<Rep(NoSalto, 0, MaxRepeticiones)>>
                   \o Textual(<<"f","r","a","c","t","u","r","a">>)
                   \o <<Rep(NoSalto, 0, MaxRepeticiones)>>,
        nombre |-> <<"F","r","a","c","t","u","r","a"," ","T","e","m","p","o","r","a","l">>],
       \* frontal[^\n]*fractura[^\n]*
       [patron |-> Textual(<<"f","r","o","n","t","a","l">>)
                   \o <<Rep(NoSalto, 0, MaxRepeticiones)>>
                   \o Textual(<<"f","r","a","c","t","u","r","a">>)
                   \o <<Rep(NoSalto, 0, MaxRepeticiones)>>,
        nombre |-> <<"F","r","a","c","t","u","r","a"," ","F","r","o","n","t","a","l">>],
       \* parietal[^\n]*fractura[^\n]*
       [patron |-> Textual(<<"p","a","r","i","e","t","a","l">>)
                   \o <<Rep(NoSalto, 0, MaxRepeticiones)>>
                   \o Textual(<<"f","r","a","c","t","u","r","a">>)
                   \o <<Rep(NoSalto, 0, MaxRepeticiones)>>,
        nombre |-> <<"F","r","a","c","t","u","r","a"," ","P","a","r","i","e","t","a","l">>],
       \* tornillo[s]?[^\n]*
       [patron |-> Textual(<<"t","o","r","n","i","l","l","o">>)
                   \o <<Rep(SinCaja({"s"}), 0, 1), Rep(NoSalto, 0, MaxRepeticiones)>>,
        nombre |-> <<"T","o","r","n","i","l","l","o","s">>],
       \* placa[s]?[^\n]*
       [patron |-> Textual(<<"p","l","a","c","a">>)
                   \o <<Rep(SinCaja({"s"}), 0, 1), Rep(NoSalto, 0, MaxRepeticiones)>>,
        nombre |-> <<"P","l","a","c","a","s">>],
       \* pin[es]?[^\n]*
       [patron |-> Textual(<<"p","i","n">>)
                   \o <<Rep(SinCaja({"e","s"}), 0, 1), Rep(NoSalto, 0, MaxRepeticiones)>>,
        nombre |-> <<"P","i","n","e","s">>] >>

\* some line holds the name and, by
\* re.search(r'(REF|LOT|etiqueta|trazabilidad)', line, re.IGNORECASE), a mention
_check_traceability_mention_for_supply(text, supply_name) ==
    \E i \in 1..Len(Split(text, "\n")) :
        /\ Contains(Lower(Split(text, "\n")[i]), Lower(supply_name))
        /\ \/ Contains(Lower(Split(text, "\n")[i]), <<"r","e","f">>)
           \/ Contains(Lower(Split(text, "\n")[i]), <<"l","o","t">>)
           \/ Contains(Lower(Split(text, "\n")[i]), <<"e","t","i","q","u","e","t","a">>)
           \/ Contains(Lower(Split(text, "\n")[i]),
                       <<"t","r","a","z","a","b","i","l","i","d","a","d">>)

\* supply_variants[normalized_name] for the k-th pair: the set of the
\* stripped matches longer than 3 characters
clean_matches(text, k) ==
    LET matches == FindAll(variants[k].patron, text, 1)
    IN  {Strip(matches[i]) : i \in {j \in 1..Len(matches) : Len(Strip(matches[j])) > 3}}

\* list(variant_set): the elements of a set of str in the order the hashes
\* of the process put them; any order, as the hash seed is drawn when the
\* interpreter starts
Listados(variant_set) ==
    {l \in [1..Cardinality(variant_set) -> variant_set] : Range(l) = variant_set}

\* the lists _extract_mentioned_supplies can return for the text: one supply
\* per pair with variants, in the order of the pairs, its variants in any of
\* the orders list(variant_set) can give
_extract_mentioned_supplies(text) ==
    LET con_variantes == {k \in 1..Len(variants) : clean_matches(text, k) # {}}
        hallados == [i \in 1..Cardinality(con_variantes) |->
                        CHOOSE k \in con_variantes :
                            Cardinality({j \in con_variantes : j < k}) = i - 1]
        ordenes == UNION {Listados(clean_matches(text, hallados[i])) :
                            i \in 1..Len(hallados)}
    IN  { [i \in 1..Len(hallados) |->
              [nombre |-> variants[hallados[i]].nombre,
               variantes_denominacion |-> o[i],
               mencion_trazabilidad |->
                   _check_traceability_mention_for_supply(
                       text, variants[hallados[i]].nombre)]] :
          o \in {f \in [1..Len(hallados) -> ordenes] :
                   \A i \in 1..Len(hallados) :
                       f[i] \in Listados(clean_matches(text, hallados[i]))} }

(***************************************************************************)
(* re.search with a capturing group, lazy repetition and alternation, for  *)
(* the field patterns of the report extractors: besides the items above, a *)
(* pattern may hold lazy items and alternations of literal texts (and $).  *)
(* A pattern is the items before its group, those of the group and those   *)
(* after it.                                                               *)
(***************************************************************************)
\* cls{lo,hi}?
RepLazy(cls, lo, hi) == [cls |-> cls, min |-> lo, max |-> hi, lazy |-> TRUE]

\* (?:a|b|...) for literal texts, then $ if fin, under re.IGNORECASE
Alt(alts, fin) == [alts |-> alts, fin |-> fin]

\* (?:a|b|...) for alternatives that are sequences of items of fixed width
Ramas(ramas) == [ramas |-> ramas]

Patron(antes, grupo, despues) == [antes |-> antes, grupo |-> grupo, despues |-> despues]

\* the length of the longest run of characters of cls at pos, tope at most
Corrida(cls, text, pos, tope) ==
    LET fuera == {i \in pos..(pos + tope - 1) : i > Len(text) \/ text[i] \notin cls}
    IN  IF fuera = {} THEN tope ELSE SetMin(fuera) - pos

RECURSIVE Trace(_, _, _, _)
RECURSIVE TraceCount(_, _, _, _, _)
RECURSIVE TraceAlt(_, _, _, _, _)
RECURSIVE TraceRamas(_, _, _, _, _)

\* the positions where items k.. of pat begin in their match at pos, then the
\* position after the match; <<>> without a match
Trace(pat, k, text, pos) ==
    IF k > Len(pat) THEN <<pos>>
    ELSE IF "alts" \in DOMAIN pat[k] THEN TraceAlt(pat, k, text, pos, 1)
    ELSE IF "ramas" \in DOMAIN pat[k] THEN TraceRamas(pat, k, text, pos, 1)
    ELSE IF "lazy" \in DOMAIN pat[k] THEN TraceCount(pat, k, text, pos, pat[k].min)
    ELSE TraceCount(pat, k, text, pos, Corrida(pat[k].cls, text, pos, pat[k].max))

\* item k repeated n times, or (backtracking) one time less if it is greedy,
\* one more if it is lazy and the n characters are of its class
TraceCount(pat, k, text, pos, n) ==
    IF n < pat[k].min \/ n > pat[k].max \/ pos + n - 1 > Len(text) THEN <<>>
    ELSE LET enClase == \A i \in pos..(pos + n - 1) : text[i] \in pat[k].cls
             resto == IF enClase THEN Trace(pat, k + 1, text, pos + n) ELSE <<>>
         IN  IF resto # <<>> THEN <<pos>> \o resto
             ELSE IF ~enClase /\ "lazy" \in DOMAIN pat[k] THEN <<>>
             ELSE TraceCount(pat, k, text, pos,
                             IF "lazy" \in DOMAIN pat[k] THEN n + 1 ELSE n - 1)

\* the alternatives of item k from the a-th on, in order; $ matches at the
\* end of the text and before a newline that ends it
TraceAlt(pat, k, text, pos, a) ==
    IF a > Len(pat[k].alts)
    THEN IF /\ pat[k].fin
            /\ \/ pos = Len(text) + 1
               \/ pos = Len(text) /\ text[pos] = "\n"
            /\ Trace(pat, k + 1, text, pos) # <<>>
         THEN <<pos>> \o Trace(pat, k + 1, text, pos)
         ELSE <<>>
    ELSE LET hasta == pos + Len(pat[k].alts[a])
             resto == Trace(pat, k + 1, text, hasta)
         IN  IF /\ hasta - 1 <= Len(text)
                /\ Lower(SubSeq(text, pos, hasta - 1)) = Lower(pat[k].alts[a])
                /\ resto # <<>>
             THEN <<pos>> \o resto
             ELSE TraceAlt(pat, k, text, pos, a + 1)

\* the alternatives of item k from the a-th on, in order
TraceRamas(pat, k, text, pos, a) ==
    IF a > Len(pat[k].ramas) THEN <<>>
    ELSE LET hasta == MatchFrom(pat[k].ramas[a], 1, text, pos)
             resto == IF hasta = 0 THEN <<>> ELSE Trace(pat, k + 1, text, hasta)
         IN  IF resto # <<>> THEN <<pos>> \o resto
             ELSE TraceRamas(pat, k, text, pos, a + 1)

\* re.search(p, text, re.IGNORECASE): match.group(1) of the leftmost match,
\* None without a match
Grupo(p, text) ==
    LET pat == p.antes \o p.grupo \o p.despues
        starts == {i \in 1..(Len(text) + 1) : Trace(pat, 1, text, i) # <<>>}
        tr == Trace(pat, 1, text, SetMin(starts))
    IN  IF starts = {} THEN None
        ELSE SubSeq(text, tr[Len(p.antes) + 1], tr[Len(p.antes) + Len(p.grupo) + 1] - 1)

RECURSIVE PrimerGrupo(_, _, _)

\* for pattern in patterns: match = re.search(...); if match: return
\* match.group(1).strip(); after the loop, return None
PrimerGrupo(patterns, k, text) ==
    IF k > Len(patterns) THEN None
    ELSE IF Grupo(patterns[k], text) # None THEN Strip(Grupo(patterns[k], text))
    ELSE PrimerGrupo(patterns, k + 1, text)

\* [A-Za-záéíóúñÑ\s] under re.IGNORECASE
LetrasEspacio == Range(Mayusculas) \cup Range(Minusculas) \cup Whitespace

\* [:\s]
DosPuntosEspacio == {":"} \cup Whitespace

\* (?:\n|$)
FinDeLinea == Alt(<< <<"\n">> >>, TRUE)

\* Dr\.?\s*[A-Za-záéíóúñÑ\s]+?
DrNombre ==
    Textual(<<"D","r">>)
        \o <<Rep({"."}, 0, 1), Rep(Whitespace, 0, MaxRepeticiones),
             RepLazy(LetrasEspacio, 1, MaxRepeticiones)>>

\* the patterns of ReporteInternoExtractor._extract_doctor
patrones_medico ==
    << \* Especialista[:\s]+(Dr\.?\s*[A-Za-záéíóúñÑ\s]+?)(?:\n|$)
       Patron(Textual(<<"E","s","p","e","c","i","a","l","i","s","t","a">>)
                  \o <<Rep(DosPuntosEspacio, 1, MaxRepeticiones)>>,
              DrNombre, <<FinDeLinea>>),
       \* (Dr\.?\s*[A-Za-záéíóúñÑ\s]+?)(?:\n|Procedimiento)
       Patron(<<>>, DrNombre,
              <<Alt(<< <<"\n">>, <<"P","r","o","c","e","d","i","m","i","e","n","t","o">> >>, FALSE)>>),
       \* Médico[:\s]+([A-Za-záéíóúñÑ\s]+?)(?:\n|$)
       Patron(Textual(<<"M","é","d","i","c","o">>) \o <<Rep(DosPuntosEspacio, 1, MaxRepeticiones)>>,
              <<RepLazy(LetrasEspacio, 1, MaxRepeticiones)>>, <<FinDeLinea>>) >>

\* ReporteInternoExtractor._extract_doctor
_extract_doctor(text) == PrimerGrupo(patrones_medico, 1, text)

\* the patterns of ReporteInternoExtractor._extract_signatures
patrones_firmas ==
    << \* Firmay?\s+([^\n]+)
       Patron(Textual(<<"F","i","r","m","a">>)
                  \o <<Rep(SinCaja({"y"}), 0, 1), Rep(Whitespace, 1, MaxRepeticiones)>>,
              <<Rep(NoSalto, 1, MaxRepeticiones)>>, <<>>),
       \* Firma[:\s]+([^\n]+)
       Patron(Textual(<<"F","i","r","m","a">>) \o <<Rep(DosPuntosEspacio, 1, MaxRepeticiones)>>,
              <<Rep(NoSalto, 1, MaxRepeticiones)>>, <<>>),
       \* Instrumentador[:\s]+([^\n]+)
       Patron(Textual(<<"I","n","s","t","r","u","m","e","n","t","a","d","o","r">>)
                  \o <<Rep(DosPuntosEspacio, 1, MaxRepeticiones)>>,
              <<Rep(NoSalto, 1, MaxRepeticiones)>>, <<>>) >>

_extract_signatures(text) == PrimerGrupo(patrones_firmas, 1, text)

(***************************************************************************)
(* The report date of the report extractors (src/smart_ocr.py), by         *)
(* re.search without flags.                                                *)
(***************************************************************************)
\* the items of a text matched as it is written
Literal(w) == [i \in 1..Len(w) |-> Lit(w[i])]

\* \d{1,2}[-/]\d{1,2}[-/]\d{2,4}
FechaCapturada ==
    <<Rep(Digits, 1, 2), Rep({"-", "/"}, 1, 1), Rep(Digits, 1, 2),
      Rep({"-", "/"}, 1, 1), Rep(Digits, 2, 4)>>

\* the patterns of _extract_date, the same in both report extractors
patrones_fecha_reporte ==
    << \* Fecha[:\s]+(\d{1,2}[-/]\d{1,2}[-/]\d{2,4})
       Patron(Literal(<<"F","e","c","h","a">>) \o <<Rep(DosPuntosEspacio, 1, MaxRepeticiones)>>,
              FechaCapturada, <<>>),
       \* (\d{1,2}[-/]\d{1,2}[-/]\d{2,4})
       Patron(<<>>, FechaCapturada, <<>>),
       \* (\d{1,2}/\d{1,2}/\d{4})
       Patron(<<>>,
              <<Rep(Digits, 1, 2), Lit("/"), Rep(Digits, 1, 2), Lit("/"), Rep(Digits, 4, 4)>>,
              <<>>) >>

RECURSIVE GrupoDelPrimero(_, _, _)

\* for pattern in patterns: match = re.search(pattern, text); if match:
\* return match.group(1); after the loop, return None
GrupoDelPrimero(patterns, k, text) ==
    IF k > Len(patterns) THEN None
    ELSE IF Grupo(patterns[k], text) # None THEN Grupo(patterns[k], text)
    ELSE GrupoDelPrimero(patterns, k + 1, text)

_extract_date(text) == GrupoDelPrimero(patrones_fecha_reporte, 1, text)

(***************************************************************************)
(* The line-item supplies of the two report extractors (src/smart_ocr.py)  *)
(***************************************************************************)
\* [^0-9], over the characters of the texts
NoDigito == (NoSalto \cup {"\n"}) \ Digits

RECURSIVE ValorEntero(_)

\* int(ds) for a text of decimal digits
ValorEntero(ds) ==
    IF Len(ds) = 0 THEN 0
    ELSE 10 * ValorEntero(SubSeq(ds, 1, Len(ds) - 1))
            + (CHOOSE v \in 0..9 : DigitChars[v + 1] = ds[Len(ds)])

\* cantidad_inicial taking a leading integer equal to the ceiling as well
cantidad_inicial_inclusive(line, techo) ==
    LET recortada == Strip(line)
        sin_digito == {i \in 1..Len(recortada) : recortada[i] \notin Digits}
        hasta == IF sin_digito = {} THEN Len(recortada) ELSE SetMin(sin_digito) - 1
    IN  IF hasta >= 1 /\ ValorEntero(SubSeq(recortada, 1, hasta)) <= techo
        THEN ValorEntero(SubSeq(recortada, 1, hasta))
        ELSE CantidadNone

\* qty_match = re.search(r'^(\d+)', line.strip()); the quantity is
\* int(qty_match.group(1)) if there is a match and it is below the ceiling
cantidad_inicial(line, techo) ==
    LET recortada == Strip(line)
        sin_digito == {i \in 1..Len(recortada) : recortada[i] \notin Digits}
        hasta == IF sin_digito = {} THEN Len(recortada) ELSE SetMin(sin_digito) - 1
    IN  IF hasta >= 1 /\ ValorEntero(SubSeq(recortada, 1, hasta)) < techo
        THEN ValorEntero(SubSeq(recortada, 1, hasta))
        ELSE CantidadNone

\* (\d{5,}[-\d]*)
patron_referencia ==
    Patron(<<>>, <<Rep(Digits, 5, MaxRepeticiones),
                   Rep(Digits \cup {"-"}, 0, MaxRepeticiones)>>, <<>>)

\* (Tornillo|Placa|Pin|Torn)[^0-9]* under re.IGNORECASE, the whole match
patron_descripcion ==
    Patron(<<>>,
           <<Alt(<< <<"T","o","r","n","i","l","l","o">>, <<"P","l","a","c","a">>,
                    <<"P","i","n">>, <<"T","o","r","n">> >>, FALSE),
             Rep(NoDigito, 0, MaxRepeticiones)>>,
           <<>>)

\* LOT[:\s]*(\d+) under re.IGNORECASE
patron_lote ==
    Patron(Textual(<<"L","O","T">>) \o <<Rep(DosPuntosEspacio, 0, MaxRepeticiones)>>,
           <<Rep(Digits, 1, MaxRepeticiones)>>, <<>>)

\* (\d{4}-\d{2}-\d{2})
patron_vencimiento ==
    Patron(<<>>, <<Rep(Digits, 4, 4), Lit("-"), Rep(Digits, 2, 2), Lit("-"),
                   Rep(Digits, 2, 2)>>, <<>>)

\* en_ventana over the three lines before through the three lines after
en_ventana_tres(patron, lines, i) ==
    LET ventana == {j \in 1..Len(lines) : j >= i - 3 /\ j <= i + 3}
        con_match == {j \in ventana : Grupo(patron, lines[j]) # None}
    IN  IF con_match = {} THEN None ELSE Grupo(patron, lines[SetMin(con_match)])

\* for j in range(max(0, i-2), min(len(lines), i+3)): the group of the first
\* line of the window that matches, None if none does (lines count from 1)
en_ventana(patron, lines, i) ==
    LET ventana == {j \in 1..Len(lines) : j >= i - 2 /\ j <= i + 2}
        con_match == {j \in ventana : Grupo(patron, lines[j]) # None}
    IN  IF con_match = {} THEN None ELSE Grupo(patron, lines[SetMin(con_match)])

\* the InsumoInterno of the reference line i
insumo_de_linea(lines, i) ==
    LET desc_match == Grupo(patron_descripcion, lines[i])
        lote == en_ventana(patron_lote, lines, i)
        vencimiento == en_ventana(patron_vencimiento, lines, i)
    IN  [nombre |-> IF desc_match # None THEN Strip(desc_match) ELSE None,
         cantidad |-> cantidad_inicial(lines[i], 1000),
         referencia_ref |-> Grupo(patron_referencia, lines[i]),
         lote_lot |-> lote,
         fecha_vencimiento |-> vencimiento,
         etiqueta_presente |-> Truthy(lote) \/ Truthy(vencimiento)]

\* ReporteInternoExtractor._extract_supplies_with_traceability: one supply
\* for every line with a reference, in the order of the lines
_extract_supplies_with_traceability(text) ==
    LET lines == Split(text, "\n")
        ConReferencia(i) == Grupo(patron_referencia, lines[i]) # None
        ks == SelectSeq(Indices(lines), ConReferencia)
    IN  List([k \in 1..Len(ks) |-> insumo_de_linea(lines, ks[k])], Len(ks))

\* (Tornillo|Placa|Pin|Torn) under re.IGNORECASE
patron_linea_insumo ==
    Patron(<<>>,
           <<Alt(<< <<"T","o","r","n","i","l","l","o">>, <<"P","l","a","c","a">>,
                    <<"P","i","n">>, <<"T","o","r","n">> >>, FALSE)>>,
           <<>>)

\* (Tornillo[^0-9]*|Placa[^0-9]*|Pin[^0-9]*) under re.IGNORECASE
patron_descripcion_hospital ==
    Patron(<<>>,
           <<Alt(<< <<"T","o","r","n","i","l","l","o">>, <<"P","l","a","c","a">>,
                    <<"P","i","n">> >>, FALSE),
             Rep(NoDigito, 0, MaxRepeticiones)>>,
           <<>>)

\* LOT|REF under re.IGNORECASE
patron_lot_ref ==
    Patron(<<>>, <<Alt(<< <<"L","O","T">>, <<"R","E","F">> >>, FALSE)>>, <<>>)

\* the InsumoHospital of a line that names a supply
insumo_hospital_de_linea(line) ==
    LET desc_match == Grupo(patron_descripcion_hospital, line)
    IN  [nombre |-> IF desc_match # None THEN Strip(desc_match) ELSE None,
         cantidad |-> cantidad_inicial(line, 100),
         observaciones |-> IF Grupo(patron_lot_ref, line) = None
                           THEN <<"S","i","n"," ","d","a","t","o","s"," ","d","e"," ",
                                  "t","r","a","z","a","b","i","l","i","d","a","d">>
                           ELSE None]

\* ReporteHospitalExtractor._extract_supplies_basic: one supply for every
\* line that names a supply kind and yields a truthy nombre
_extract_supplies_basic(text) ==
    LET lines == Split(text, "\n")
        ConInsumo(i) ==
            /\ Grupo(patron_linea_insumo, lines[i]) # None
            /\ Truthy(insumo_hospital_de_linea(lines[i]).nombre)
        ks == SelectSeq(Indices(lines), ConInsumo)
    IN  List([k \in 1..Len(ks) |-> insumo_hospital_de_linea(lines[ks[k]])], Len(ks))

(***************************************************************************)
(* The patient and the surgeon of the hospital report (src/smart_ocr.py)   *)
(***************************************************************************)
\* the patterns of _extract_patient_name and of _is_patient_name; with the
\* alternative \n before it, $ ends the same matches with and without
\* re.MULTILINE
patrones_paciente ==
    << \* por\s+([A-Za-záéíóúñÑ\s]+?)(?:\n|\d{10})
       Patron(Textual(<<"p","o","r">>) \o <<Rep(Whitespace, 1, MaxRepeticiones)>>,
              <<RepLazy(LetrasEspacio, 1, MaxRepeticiones)>>,
              <<Ramas(<< <<Lit("\n")>>, <<Rep(Digits, 10, 10)>> >>)>>),
       \* Paciente[:\s]+([A-Za-záéíóúñÑ\s]+?)(?:\n|$)
       Patron(Textual(<<"P","a","c","i","e","n","t","e">>)
                  \o <<Rep(DosPuntosEspacio, 1, MaxRepeticiones)>>,
              <<RepLazy(LetrasEspacio, 1, MaxRepeticiones)>>, <<FinDeLinea>>),
       \* Cliente[:\s]+([A-Za-záéíóúñÑ\s]+?)(?:\n|$)
       Patron(Textual(<<"C","l","i","e","n","t","e">>)
                  \o <<Rep(DosPuntosEspacio, 1, MaxRepeticiones)>>,
              <<RepLazy(LetrasEspacio, 1, MaxRepeticiones)>>, <<FinDeLinea>>) >>

UpperChar(c) ==
    IF \E i \in 1..Len(Minusculas) : Minusculas[i] = c
    THEN Mayusculas[CHOOSE i \in 1..Len(Minusculas) : Minusculas[i] = c]
    ELSE c

\* ' '.join(word.capitalize() for word in name.split())
Capitalizar(name) ==
    LET junto == Strip(CollapseWhitespace(name))
    IN  List([i \in 1..Len(junto) |->
                 IF i = 1 \/ junto[i - 1] = " " THEN UpperChar(junto[i])
                 ELSE LowerChar(junto[i])], Len(junto))

\* name.isdigit()
EsDigitos(name) == name # <<>> /\ \A i \in 1..Len(name) : name[i] \in Digits

\* match.group(1).strip() of a match, '' for no match
NombreHallado(grupo) == IF grupo = None THEN <<>> ELSE Strip(grupo)

RECURSIVE PrimerPaciente(_, _)
RECURSIVE PacienteDesde(_, _, _)

\* the loop of _extract_patient_name from the k-th pattern on
PrimerPaciente(k, text) ==
    IF k > Len(patrones_paciente) THEN None
    ELSE PacienteDesde(k, text, NombreHallado(Grupo(patrones_paciente[k], text)))

\* the body of the loop for the name the k-th pattern found
PacienteDesde(k, text, name) ==
    IF Len(name) > 3 /\ ~EsDigitos(name) THEN Capitalizar(name)
    ELSE PrimerPaciente(k + 1, text)

\* ReporteHospitalExtractor._extract_patient_name
_extract_patient_name(text) == PrimerPaciente(1, text)

\* doctor_name.lower() in patient_name.lower() or the other way round, for
\* the group of a match of a patient pattern
Solapan(doctor_name, grupo) ==
    /\ grupo # None
    /\ \/ Contains(Lower(Strip(grupo)), Lower(doctor_name))
       \/ Contains(Lower(doctor_name), Lower(Strip(grupo)))

\* ReporteHospitalExtractor._is_patient_name
_is_patient_name(doctor_name, text) ==
    \E k \in 1..Len(patrones_paciente) :
        Solapan(doctor_name, Grupo(patrones_paciente[k], text))

\* the patterns of ReporteHospitalExtractor._extract_doctor that compile
patrones_cirujano ==
    << \* Cirujano[:\s]+([A-Za-záéíóúñÑ\s\.]+?)(?:\n|$)
       Patron(Textual(<<"C","i","r","u","j","a","n","o">>)
                  \o <<Rep(DosPuntosEspacio, 1, MaxRepeticiones)>>,
              <<RepLazy(LetrasEspacio \cup {"."}, 1, MaxRepeticiones)>>, <<FinDeLinea>>),
       \* CIRUJANO[:\s]+([A-Za-záéíóúñÑ\s\.]+?)(?:\n|$)
       Patron(Textual(<<"C","I","R","U","J","A","N","O">>)
                  \o <<Rep(DosPuntosEspacio, 1, MaxRepeticiones)>>,
              <<RepLazy(LetrasEspacio \cup {"."}, 1, MaxRepeticiones)>>, <<FinDeLinea>>),
       \* Especialista[:\s]+(Dr\.?\s*[A-Za-záéíóúñÑ\s]+?)(?:\n|Procedimiento|$)
       Patron(Textual(<<"E","s","p","e","c","i","a","l","i","s","t","a">>)
                  \o <<Rep(DosPuntosEspacio, 1, MaxRepeticiones)>>,
              DrNombre,
              <<Alt(<< <<"\n">>, <<"P","r","o","c","e","d","i","m","i","e","n","t","o">> >>, TRUE)>>),
       \* Médico[:\s]+(Dr\.?\s*[A-Za-záéíóúñÑ\s]+?)(?:\n|$)
       Patron(Textual(<<"M","é","d","i","c","o">>) \o <<Rep(DosPuntosEspacio, 1, MaxRepeticiones)>>,
              DrNombre, <<FinDeLinea>>) >>

RECURSIVE PrimerCirujano(_, _)
RECURSIVE CirujanoDesde(_, _, _)

\* the loop of _extract_doctor from the k-th pattern on; the fifth pattern,
\* (?<!por\s)(?<!por\s\w{1,10}\s)(Dr\.?...), has a look-behind of variable
\* width: re.search raises re.error when it compiles it
PrimerCirujano(k, text) ==
    IF k > Len(patrones_cirujano) THEN [excepcion |-> "re.error", valor |-> None]
    ELSE CirujanoDesde(k, text, NombreHallado(Grupo(patrones_cirujano[k], text)))

\* the body of the loop for the name the k-th pattern found
CirujanoDesde(k, text, doctor_name) ==
    IF Len(doctor_name) > 3 /\ ~_is_patient_name(doctor_name, text)
    THEN [excepcion |-> "", valor |-> doctor_name]
    ELSE PrimerCirujano(k + 1, text)

\* ReporteHospitalExtractor._extract_doctor
_extract_doctor_hospital(text) == PrimerCirujano(1, text)

(***************************************************************************)
(* Records as the extractors serialise them (model_dump_json): every field *)
(* of the pydantic class is a key, an absent optional field is null.       *)
(***************************************************************************)
InsumoInterno(nombre, cantidad) ==
    [nombre |-> nombre, cantidad |-> cantidad, referencia_ref |-> <<"1","2","3","4","5">>,
     lote_lot |-> None, fecha_vencimiento |-> None, etiqueta_presente |-> FALSE]

InsumoHospital(nombre, cantidad) ==
    [nombre |-> nombre, cantidad |-> cantidad, observaciones |-> None]

InsumoDescripcion(nombre) ==
    [nombre |-> nombre, variantes_denominacion |-> <<nombre>>,
     mencion_trazabilidad |-> FALSE]

ReporteInternoQuirurgico(paciente, fecha, procedimiento, medico, insumos, etiquetas, lugar) ==
    [tipo_documento |-> "REPORTE DE GASTO QUIRÚRGICO (INTERNO)",
     nombre_paciente |-> paciente, fecha_reporte |-> fecha,
     datos_procedimiento |-> procedimiento, medico_responsable |-> medico,
     insumos_utilizados |-> insumos, etiquetas_trazabilidad |-> etiquetas,
     ciudad_lugar |-> lugar, firmas_responsables |-> None]

ReporteHospitalQuirurgico(paciente, fecha, procedimiento, cirujano, insumos, lugar) ==
    [tipo_documento |-> "REPORTE DE GASTO QUIRÚRGICO (HOSPITAL)",
     nombre_paciente |-> paciente, fecha_reporte |-> fecha,
     datos_procedimiento |-> procedimiento, cirujano |-> cirujano,
     insumos_utilizados |-> insumos, ciudad_lugar |-> lugar,
     datos_clinicos_administrativos |-> <<>>,
     nota_trazabilidad |-> "Generalmente no incluye REF/LOT o etiquetas"]

\* a description record that also carries a nombre_paciente key
DescripcionQuirurgica_con_paciente(descripcion, insumos) ==
    [tipo_documento |-> "DESCRIPCIÓN QUIRÚRGICA (DOCTOR)",
     nombre_paciente |-> descripcion,
     descripcion_procedimiento |-> descripcion, insumos_mencionados |-> insumos,
     referencias_trazabilidad |-> <<>>, datos_complementarios |-> <<>>]

DescripcionQuirurgica(descripcion, insumos) ==
    [tipo_documento |-> "DESCRIPCIÓN QUIRÚRGICA (DOCTOR)",
     descripcion_procedimiento |-> descripcion, insumos_mencionados |-> insumos,
     referencias_trazabilidad |-> <<>>, datos_complementarios |-> <<>>]

\* the dict _check_traceability returns, its first k indicators true
EtiquetasTrazabilidad(k) ==
    [tiene_referencias |-> k >= 1, tiene_lotes |-> k >= 2,
     tiene_udi |-> k >= 3, tiene_fechas_vencimiento |-> k >= 4]

(***************************************************************************)
(* Inputs                                                                  *)
(***************************************************************************)
MaxDia == 2

MaxCantidad == 2

MaxInsumos == 2

Repetir(c, n) == List([i \in 1..n |-> c], n)

\* day d of May 2024 in the format f of the four the comparator knows
FechaEnFormato(f, d) ==
    CASE f = 1 -> Decimal(d) \o <<"/","0","5","/","2","0","2","4">>
      [] f = 2 -> Decimal(d) \o <<"-","0","5","-","2","0","2","4">>
      [] f = 3 -> <<"2","0","2","4","/","0","5","/">> \o Decimal(d)
      [] f = 4 -> <<"2","0","2","4","-","0","5","-">> \o Decimal(d)

\* what the three fecha arguments of comparar_fechas are drawn from
FechasEntrada ==
    {None, <<>>, <<"s","i","n"," ","f","e","c","h","a">>, <<"1","0","/","0","5","/","2","4">>}
    \cup {FechaEnFormato(f, d) : f \in 1..4, d \in 1..MaxDia}
    \cup {<<"F","e","c","h","a",":"," ">> \o FechaEnFormato(1, d) \o <<" ","r","e","g","i","s","t","r","a","d","o">> : d \in 1..MaxDia}

\* what the three nombre arguments of comparar_nombres are drawn from
NombresEntrada ==
    {None, <<>>, NA, <<" ","n","/","a"," ">>,
     <<"A","n","a">>, <<"a","n","a"," ","	">>, <<"L","e","o">>,
     <<"a","a","a","b","a">>, <<"a","b","a","a","b">>,
     <<"J","u","a","n"," ","P","e","r","e","z">>, <<"J","U","A","N"," "," ","P","E","R","E","Z">>, <<"M","a","r","i","a"," ","L","o","p","e","z">>,
     <<"J","u","a","n"," ","P","é","r","e","z">>, <<"J","U","A","N"," ","P","E","R","E","Z">>,
     <<"j","u","a","n"," "," "," ","p","e","r","e","z">>}

\* all lists of at most n elements of S
RECURSIVE ListasHasta(_, _)

ListasHasta(S, n) ==
    IF n = 0 THEN {<<>>}
    ELSE LET cortas == ListasHasta(S, n - 1)
         IN  cortas \cup {Append(l, x) : l \in {c \in cortas : Len(c) = n - 1}, x \in S}

Cantidades == 1..MaxCantidad

InsumosEntrada1 ==
    ListasHasta({InsumoInterno(n, c) : n \in {<<"S","o","n","d","a">>, <<"P","l","a","c","a">>},
                                       c \in Cantidades}, MaxInsumos)

InsumosEntrada2 ==
    ListasHasta({InsumoHospital(n, c) :
                    n \in {<<"C","a","t","e","t","e","r">>, <<"P","l","a","c","a">>, None},
                    c \in Cantidades \cup {CantidadNone}}, 1)

InsumosEntrada3 ==
    ListasHasta({InsumoDescripcion(n) : n \in {<<"t","u","b","o"," ","d","e"," ","d","r","e","n","a","j","e">>, <<"P","l","a","c","a","s">>}}, 1)

\* the cases of one field of the type 1 and type 2 records: both absent,
\* agreeing, disagreeing
CasosFecha ==
    { <<None, None>>,
      <<FechaEnFormato(1, 1), FechaEnFormato(1, 1)>>,
      <<FechaEnFormato(1, 1), FechaEnFormato(1, 2)>>,
      <<FechaEnFormato(1, 1), <<"1","0","/","0","5","/","2","4">>>> }

CasosPaciente ==
    { <<None, None>>,
      <<<<"J","u","a","n"," ","P","e","r","e","z">>, <<"J","U","A","N"," "," ","P","E","R","E","Z">>>>,
      <<<<"J","u","a","n"," ","P","e","r","e","z">>, <<"M","a","r","i","a"," ","L","o","p","e","z">>>> }

CasosProcedimiento ==
    { <<<<"O","s","t","e","o","s","i","n","t","e","s","i","s">>, <<"o","s","t","e","o","s","i","n","t","e","s","i","s">>>>,
      <<Repetir("a", LimiteProcedimiento + 1), <<"O","s","t","e","o","s","i","n","t","e","s","i","s">>>>,
      <<None, <<"O","s","t","e","o","s","i","n","t","e","s","i","s">>>>,
      <<<<"O","s","t","e","o","s","i","n","t","e","s","i","s">>, None>> }

CasosMedico ==
    { <<<<"D","r","."," ","R","u","i","z">>, <<"D","r"," ","R","u","i","z">>>>,
      <<<<"D","r","."," ","R","u","i","z">>, <<"D","r","."," ","S","o","t","o">>>> }

CasosLugar ==
    { <<<<"C","a","l","i">>, <<"C","a","l","i">>>>,
      <<<<"C","a","l","i">>, <<"B","o","g","o","t","á">>>> }

CasosInsumos ==
    { << <<>>, <<>>, <<>> >>,
      << <<InsumoInterno(<<"T","o","r","n","i","l","l","o">>, 1)>>,
         <<InsumoHospital(<<"t","o","r","n","i","l","l","o">>, 1)>>, <<>> >>,
      << <<InsumoInterno(<<"T","o","r","n","i","l","l","o">>, 1)>>,
         <<InsumoHospital(<<"t","o","r","n","i","l","l","o">>, MaxCantidad)>>, <<>> >>,
      << <<InsumoInterno(<<"T","o","r","n","i","l","l","o","s">>, 1)>>, <<>>,
         <<InsumoDescripcion(<<"T","o","r","n","i","l","l","o","s">>)>> >>,
      << <<InsumoInterno(<<"T","o","r","n","i","l","l","o","s">>, 1)>>,
         <<InsumoHospital(<<"T","o","r","n","i","l","l","o","s">>, 1)>>,
         <<InsumoDescripcion(<<"T","o","r","n","i","l","l","o","s">>)>> >> }

\* the documents of a run that were extracted; the others are {}
Presentes == (SUBSET {1, 2, 3}) \ {{}}

(***************************************************************************)
(* The reconciliation run (main): load the records, procesar_resultados,   *)
(* generar_resumen_ejecutivo.                                              *)
(***************************************************************************)
Init ==
    /\ pc = "inicio"
    /\ \E p \in Presentes, fe \in CasosFecha, pa \in CasosPaciente,
          pr \in CasosProcedimiento, me \in CasosMedico, lu \in CasosLugar,
          ins \in CasosInsumos, k \in 0..4 :
          /\ resultado_tipo1 =
                IF 1 \in p
                THEN ReporteInternoQuirurgico(pa[1], fe[1], pr[1], me[1], ins[1],
                                              EtiquetasTrazabilidad(k), lu[1])
                ELSE <<>>
          /\ resultado_tipo2 =
                IF 2 \in p
                THEN ReporteHospitalQuirurgico(pa[2], fe[2], pr[2], me[2], ins[2], lu[2])
                ELSE <<>>
          /\ resultado_tipo3 =
                IF 3 \in p THEN DescripcionQuirurgica(pr[1], ins[3]) ELSE <<>>
    /\ discrepancias = <<>>
    /\ resumen = <<>>
    /\ entrada = <<>>
    /\ salida = <<>>

ProcesarResultados ==
    /\ pc = "inicio"
    /\ \E r \in {procesar_resultados(resultado_tipo1, resultado_tipo2, resultado_tipo3)} :
          /\ discrepancias' = r.valor
          /\ pc' = IF r.excepcion = "" THEN "procesado" ELSE r.excepcion
    /\ UNCHANGED <<resultado_tipo1, resultado_tipo2, resultado_tipo3, resumen,
                   entrada, salida>>

GenerarResumenEjecutivo ==
    /\ pc = "procesado"
    /\ resumen' = generar_resumen_ejecutivo(discrepancias)
    /\ pc' = "fin"
    /\ UNCHANGED <<resultado_tipo1, resultado_tipo2, resultado_tipo3, discrepancias,
                   entrada, salida>>

Next == ProcesarResultados \/ GenerarResumenEjecutivo

Spec == Init /\ [][Next]_vars

(***************************************************************************)
(* The comparators on their own: the arguments are drawn at the call, the  *)
(* one action is the call.                                                 *)
(***************************************************************************)
SinRegistros ==
    /\ resultado_tipo1 = <<>>
    /\ resultado_tipo2 = <<>>
    /\ resultado_tipo3 = <<>>
    /\ discrepancias = <<>>
    /\ resumen = <<>>

Retorno(valor) ==
    /\ pc = "llamada"
    /\ salida' = valor
    /\ pc' = "retorno"
    /\ UNCHANGED <<resultado_tipo1, resultado_tipo2, resultado_tipo3, discrepancias,
                   resumen, entrada>>

InitFechas ==
    /\ pc = "llamada"
    /\ entrada \in FechasEntrada \X FechasEntrada \X FechasEntrada
    /\ salida = <<>>
    /\ SinRegistros

CompararFechas == Retorno(comparar_fechas(entrada[1], entrada[2], entrada[3]))

SpecFechas == InitFechas /\ [][CompararFechas]_vars

InitNombres ==
    /\ pc = "llamada"
    /\ entrada \in NombresEntrada \X NombresEntrada \X NombresEntrada
    /\ salida = <<>>
    /\ SinRegistros

CompararNombres == Retorno(comparar_nombres(entrada[1], entrada[2], entrada[3]))

SpecNombres == InitNombres /\ [][CompararNombres]_vars

InitInsumos ==
    /\ pc = "llamada"
    /\ entrada \in InsumosEntrada1 \X InsumosEntrada2 \X InsumosEntrada3
    /\ salida = <<>>
    /\ SinRegistros

CompararInsumos == Retorno(comparar_insumos(entrada[1], entrada[2], entrada[3]))

SpecInsumos == InitInsumos /\ [][CompararInsumos]_vars

\* what the resultado_tipo1 argument of analizar_trazabilidad is drawn from:
\* no record, a record without the key, and records whose dict holds any of
\* the four indicators, each true or false
TrazabilidadEntrada ==
    {<<>>, [nombre_paciente |-> None]}
    \cup {[etiquetas_trazabilidad |-> e] :
            e \in UNION {[K -> BOOLEAN] :
                           K \in SUBSET {ClavesTrazabilidad[k] : k \in 1..4}}}

InitTrazabilidad ==
    /\ pc = "llamada"
    /\ entrada \in TrazabilidadEntrada
    /\ salida = <<>>
    /\ SinRegistros

AnalizarTrazabilidad == Retorno(analizar_trazabilidad(entrada))

SpecTrazabilidad == InitTrazabilidad /\ [][AnalizarTrazabilidad]_vars

\* raw supply names: absent, empty, one word, two words (one or two blanks
\* between them); the words are synonyms of several keys of the table, in
\* either case, and a word of no key
NombresInsumo ==
    LET palabras ==
          { <<"s","o","n","d","a">>,
            <<"G","a","s","a">>,
            <<"H","I","L","O">>,
            <<"c","u","c","h","i","l","l","a">>,
            <<"a","g","u","j","a">>,
            <<"p","l","a","c","a">>,
            <<"t","u","b","o">>,
            <<"p","u","n","t","o">> }
    IN  {None, <<>>} \cup palabras
        \cup {a \o sep \o b : a \in palabras, b \in palabras,
                                sep \in {<<" ">>, <<" ", " ">>}}

InitInsumo ==
    /\ pc = "llamada"
    /\ entrada \in NombresInsumo
    /\ salida = <<>>
    /\ SinRegistros

NormalizarInsumo == Retorno(normalizar_insumo(entrada))

SpecInsumo == InitInsumo /\ [][NormalizarInsumo]_vars

MaxTexto == 4

\* the texto argument of normalizar_texto: absent, or a str of at most
\* MaxTexto characters (the empty one included) that are a capital, a small
\* letter or one of three kinds of whitespace
TextosEntrada == {None} \cup ListasHasta({"A", "b", " ", "\t", "\n"}, MaxTexto)

InitTexto ==
    /\ pc = "llamada"
    /\ entrada \in TextosEntrada
    /\ salida = <<>>
    /\ SinRegistros

NormalizarTexto == Retorno(normalizar_texto(entrada))

SpecTexto == InitTexto /\ [][NormalizarTexto]_vars

\* the cleaned text of a description: one to three lines
TextosDescripcion ==
    LET lineas ==
          { <<"p","l","a","c","a"," ","u","n","o">>,
            <<"P","l","a","c","a","s"," ","R","E","F"," ","2">>,
            <<"t","o","r","n","i","l","l","o","s">>,
            <<"p","i","n">>,
            <<"x","y","z"," ","a","b","c">> }
    IN  lineas
        \cup {a \o <<"\n">> \o b : a \in lineas, b \in lineas}
        \cup {a \o <<"\n">> \o b \o <<"\n">> \o c : a \in lineas, b \in lineas, c \in lineas}

\* how many times the same text is extracted, each time by a run of the
\* program
Extracciones == 2

InitDescripcion ==
    /\ pc = "llamada"
    /\ entrada \in TextosDescripcion
    /\ salida = <<>>
    /\ SinRegistros

\* one run of the program on the text: salida lists what each run returned
ExtraerInsumos ==
    /\ pc = "llamada"
    /\ Len(salida) < Extracciones
    /\ \E supplies \in _extract_mentioned_supplies(entrada) :
          salida' = Append(salida, supplies)
    /\ UNCHANGED <<pc, resultado_tipo1, resultado_tipo2, resultado_tipo3, discrepancias,
                   resumen, entrada>>

SpecDescripcion == InitDescripcion /\ [][ExtraerInsumos]_vars

\* the text of an internal report: one line, one line and its newline, or
\* two lines
TextosInterno ==
    LET lineas ==
          { <<"M","é","d","i","c","o",":"," ">>,
            <<"M","é","d","i","c","o",":"," ","A","n","a"," ","S","o","t","o">>,
            <<"E","s","p","e","c","i","a","l","i","s","t","a",":"," ","D","r","."," ","R","u","i","z">>,
            <<"D","r"," ","R","u","i","z"," ","P","r","o","c","e","d","i","m","i","e","n","t","o">>,
            <<"F","i","r","m","a"," "," ">>,
            <<"F","i","r","m","a","y",":"," ","J","u","a","n">>,
            <<"I","n","s","t","r","u","m","e","n","t","a","d","o","r",":","\t">>,
            <<"P","a","c","i","e","n","t","e">> }
    IN  lineas \cup {a \o <<"\n">> : a \in lineas}
        \cup {a \o <<"\n">> \o b : a \in lineas, b \in lineas}

InitInterno ==
    /\ pc = "llamada"
    /\ entrada \in TextosInterno
    /\ salida = <<>>
    /\ SinRegistros

\* medico_responsable=self._extract_doctor(cleaned_text)
ExtraerMedico ==
    Retorno([campo |-> "medico_responsable", valor |-> _extract_doctor(entrada)])

\* firmas_responsables=self._extract_signatures(cleaned_text)
ExtraerFirmas ==
    Retorno([campo |-> "firmas_responsables", valor |-> _extract_signatures(entrada)])

NextInterno == ExtraerMedico \/ ExtraerFirmas

SpecInterno == InitInterno /\ [][NextInterno]_vars

(***************************************************************************)
(* The report date from the text of a report to the date comparator: the   *)
(* call of _extract_date, then extraer_fecha_texto on the fecha_reporte    *)
(* of the record.                                                          *)
(***************************************************************************)
\* what comes before and after the date in the text of a report
PrefijosFecha ==
    {<<>>, <<"F","e","c","h","a",":"," ">>, <<"F","e","c","h","a","\t">>, <<"f","e","c","h","a",":"," ">>, <<"C","a","l","i",","," ">>}

SufijosFecha == {<<>>, <<" ","o","k">>, <<"\n","P","a","c","i","e","n","t","e">>}

\* the dates as the reports write them: the four formats, and a two-digit
\* year, mixed separators and no date at all
FechasEscritas ==
    {FechaEnFormato(f, d) : f \in 1..4, d \in 1..MaxDia}
    \cup {<<"1","/","0","5","/","2","4">>, <<"1","/","0","5","-","2","0","2","4">>, <<"1","2","/","0","5","/","2","0","2","4">>,
          <<"s","i","n"," ","f","e","c","h","a">>}

InitFechaReporte ==
    /\ pc = "llamada"
    /\ entrada \in {pre \o fecha \o suf :
                      pre \in PrefijosFecha, fecha \in FechasEscritas, suf \in SufijosFecha}
    /\ salida = <<>>
    /\ SinRegistros

ExtraerFecha ==
    /\ pc = "llamada"
    /\ pc' = "extraida"
    /\ salida' = [fecha_reporte |-> _extract_date(entrada)]
    /\ UNCHANGED <<resultado_tipo1, resultado_tipo2, resultado_tipo3, discrepancias,
                   resumen, entrada>>

\* comparar_fechas on the record: extraer_fecha_texto(fecha) if fecha else None
ReconocerFecha ==
    /\ pc = "extraida"
    /\ pc' = "retorno"
    /\ salida' = [fecha_reporte |-> salida.fecha_reporte,
                  fecha |-> IF Truthy(salida.fecha_reporte)
                            THEN extraer_fecha_texto(salida.fecha_reporte) ELSE None]
    /\ UNCHANGED <<resultado_tipo1, resultado_tipo2, resultado_tipo3, discrepancias,
                   resumen, entrada>>

NextFechaReporte == ExtraerFecha \/ ReconocerFecha

SpecFechaReporte == InitFechaReporte /\ [][NextFechaReporte]_vars

(***************************************************************************)
(* The supplies of a report text: the call of the internal extractor's     *)
(* _extract_supplies_with_traceability or of the hospital extractor's      *)
(* _extract_supplies_basic on the text.                                    *)
(***************************************************************************)
\* lines of a report that start, or not, with an integer
LineasConCantidad ==
    { <<"2"," ","T","o","r","n","i","l","l","o"," ","1","2","3","4","5","6">>,
      <<" ","9","9","9"," ","P","l","a","c","a"," ","1","2","3","4","5","-","6">>,
      <<"1","0","0","0"," ","P","i","n"," ","1","2","3","4","5","6">>,
      <<"1","0","0"," ","P","l","a","c","a"," ","R","E","F"," ","5","5","5","5","5">>,
      <<"9","9"," ","P","i","n">>,
      <<"1","2","3","4","5","6"," ","T","o","r","n","i","l","l","o">>,
      <<"0"," ","T","o","r","n"," ","7","7","7","7","7","7">>,
      <<"P","l","a","c","a"," ","3"," ","6","5","4","3","2","1">>,
      <<"0","0","7"," ","t","o","r","n","i","l","l","o"," ","5","5","5","5","5","5">> }

\* lines of a report with a reference, a lot code, an expiry date, or nothing
LineasDeEtiqueta ==
    { <<"2"," ","T","o","r","n","i","l","l","o"," ","1","2","3","4","5","6">>,
      <<"L","O","T",":"," ","7","7">>,
      <<"l","o","t"," ","8","8"," ","2","0","2","6","-","0","1","-","3","1">>,
      <<"2","0","2","5","-","1","2","-","0","1">>,
      <<"L","O","T"," ","9","8","7","6","5","4">>,
      <<"x">> }

\* the texts: one or two lines with quantities, or four lines with labels
TextosInsumos ==
    LineasConCantidad
    \cup {a \o <<"\n">> \o b : a \in LineasConCantidad, b \in LineasConCantidad}
    \cup {a \o <<"\n">> \o b \o <<"\n">> \o c \o <<"\n">> \o d :
            a \in LineasDeEtiqueta, b \in LineasDeEtiqueta,
            c \in LineasDeEtiqueta, d \in LineasDeEtiqueta}

InitInsumosReporte ==
    /\ pc = "llamada"
    /\ entrada \in TextosInsumos
    /\ salida = <<>>
    /\ SinRegistros

\* insumos_utilizados=self._extract_supplies_with_traceability(cleaned_text)
ExtraerInsumosInterno ==
    Retorno([extractor |-> "interno",
             insumos |-> _extract_supplies_with_traceability(entrada)])

\* insumos_utilizados=self._extract_supplies_basic(cleaned_text)
ExtraerInsumosHospital ==
    Retorno([extractor |-> "hospital", insumos |-> _extract_supplies_basic(entrada)])

NextInsumosReporte == ExtraerInsumosInterno \/ ExtraerInsumosHospital

SpecInsumosReporte == InitInsumosReporte /\ [][NextInsumosReporte]_vars

(***************************************************************************)
(* The patient and the surgeon of a hospital report text: extract calls    *)
(* _extract_patient_name and then _extract_doctor on the same text; an     *)
(* error raised by the second leaves no record.                            *)
(***************************************************************************)
LineasHospital ==
    { <<"P","a","c","i","e","n","t","e",":"," ","J","u","a","n"," "," "," ","P","e","r","e","z">>,
      <<"P","a","c","i","e","n","t","e",":"," ","J","U","A","N"," ","P","E","R","E","Z">>,
      <<"P","a","c","i","e","n","t","e",":"," "," ">>,
      <<"C","i","r","u","j","a","n","o",":"," ","J","u","a","n"," ","P","e","r","e","z">>,
      <<"C","i","r","u","j","a","n","o",":"," ","D","r","."," ","R","u","i","z">>,
      <<"M","é","d","i","c","o",":"," ","D","r"," ","S","o","t","o">>,
      <<"E","s","p","e","c","i","a","l","i","s","t","a",":"," ","D","r","."," ","J","u","a","n"," ","P","r","o","c","e","d","i","m","i","e","n","t","o">>,
      <<"p","o","r"," ","A","n","a"," ","R","u","i","z"," ","1","2","3","4","5","6","7","8","9","0">>,
      <<"C","l","i","e","n","t","e",":"," ","A","n","a">> }

\* one to three lines
TextosHospital ==
    LineasHospital
    \cup {a \o <<"\n">> \o b : a \in LineasHospital, b \in LineasHospital}
    \cup {a \o <<"\n">> \o b \o <<"\n">> \o c :
            a \in LineasHospital, b \in LineasHospital, c \in LineasHospital}

InitHospital ==
    /\ pc = "llamada"
    /\ entrada \in TextosHospital
    /\ salida = <<>>
    /\ SinRegistros

ExtraerPacienteYCirujano ==
    /\ pc = "llamada"
    /\ \E doctor \in {_extract_doctor_hospital(entrada)} :
          /\ pc' = IF doctor.excepcion = "" THEN "retorno" ELSE doctor.excepcion
          /\ salida' = IF doctor.excepcion = ""
                       THEN [nombre_paciente |-> _extract_patient_name(entrada),
                             cirujano |-> doctor.valor]
                       ELSE <<>>
    /\ UNCHANGED <<resultado_tipo1, resultado_tipo2, resultado_tipo3, discrepancias,
                   resumen, entrada>>

SpecHospital == InitHospital /\ [][ExtraerPacienteYCirujano]_vars

(***************************************************************************)
(* The batch run of the interface (src/interfaz_ocr.py, main): the files   *)
(* chosen in the three uploaders are processed one after the other by      *)
(* process_multiple_files, then the successful results are handed to       *)
(* display_discrepancias.  entrada is files_to_process (the type tag of    *)
(* each file), salida the results list; the outcome of processing a file   *)
(* (the OCR call and the extraction) is not known before it runs.          *)
(***************************************************************************)
\* files_to_process: at most one file per uploader, in the order 1, 2, 3
ArchivosLote ==
    { <<1>>, <<2>>, <<3>>, <<1, 2>>, <<1, 3>>, <<2, 3>>, <<1, 2, 3>> }

\* json.loads(result.model_dump_json()) of what processing a file of the
\* type can return
RegistrosLote(tipo) ==
    IF tipo = 1
    THEN {ReporteInternoQuirurgico(pa, FechaEnFormato(1, 1), pr,
                                   <<"D","r","."," ","R","u","i","z">>, <<>>,
                                   EtiquetasTrazabilidad(k), <<"C","a","l","i">>) :
            pa \in {<<"J","u","a","n"," ","P","e","r","e","z">>, None},
            pr \in {<<"O","s","t","e","o","s","i","n","t","e","s","i","s">>, None},
            k \in {0, 3}}
    ELSE IF tipo = 2
    THEN {ReporteHospitalQuirurgico(pa, FechaEnFormato(1, d),
                                    <<"o","s","t","e","o","s","i","n","t","e","s","i","s">>,
                                    <<"D","r"," ","R","u","i","z">>, <<>>,
                                    <<"C","a","l","i">>) :
            pa \in {<<"J","U","A","N"," "," ","P","E","R","E","Z">>,
                    <<"M","a","r","i","a"," ","L","o","p","e","z">>},
            d \in 1..MaxDia}
    ELSE {DescripcionQuirurgica(de, <<>>) :
            de \in {<<"O","s","t","e","o","s","i","n","t","e","s","i","s">>, None}}

\* the entry process_multiple_files appends for a file
ResultadoArchivo(tipo, result, success) ==
    [tipo |-> tipo, result |-> result, success |-> success]

Exitoso(r) == r.success

\* [r for r in results if r['success']]
Exitosos(results) == SelectSeq(results, Exitoso)

\* the first successful result of every type, whatever type is asked for
RegistroDeTipo_primero(successful_results, tipo) ==
    successful_results[1].result

\* the value the loop of display_discrepancias leaves in resultado_tipo<tipo>:
\* the record of the last successful result of that type, {} without one
RegistroDeTipo(successful_results, tipo) ==
    LET de_tipo == {i \in 1..Len(successful_results) : successful_results[i].tipo = tipo}
    IN  IF de_tipo = {} THEN <<>> ELSE successful_results[SetMax(de_tipo)].result

\* what main leaves when display_discrepancias is not called or returns at
\* once: nothing is compared
SinAnalisis ==
    [pc |-> "sin_analisis", resultado_tipo1 |-> <<>>, resultado_tipo2 |-> <<>>,
     resultado_tipo3 |-> <<>>, discrepancias |-> <<>>, resumen |-> <<>>]

\* display_discrepancias once the three records r1, r2, r3 are set and p is
\* what procesar_resultados did with them
Analisis(r1, r2, r3, p) ==
    IF DOMAIN r1 = {} /\ DOMAIN r2 = {} /\ DOMAIN r3 = {} THEN SinAnalisis
    ELSE [pc |-> IF p.excepcion = "" THEN "fin" ELSE p.excepcion,
          resultado_tipo1 |-> r1, resultado_tipo2 |-> r2, resultado_tipo3 |-> r3,
          discrepancias |-> p.valor,
          resumen |-> IF p.excepcion = ""
                      THEN generar_resumen_ejecutivo_interfaz(p.valor) ELSE <<>>]

display_discrepancias(successful_results) ==
    IF Len(successful_results) < 2 THEN SinAnalisis
    ELSE Analisis(RegistroDeTipo(successful_results, 1),
                  RegistroDeTipo(successful_results, 2),
                  RegistroDeTipo(successful_results, 3),
                  procesar_resultados_interfaz(RegistroDeTipo(successful_results, 1),
                                               RegistroDeTipo(successful_results, 2),
                                               RegistroDeTipo(successful_results, 3)))

InitLote ==
    /\ pc = "lote"
    /\ entrada \in ArchivosLote
    /\ salida = <<>>
    /\ SinRegistros

\* one turn of the loop of process_multiple_files whose try block completes
ProcesarArchivo ==
    /\ pc = "lote"
    /\ Len(salida) < Len(entrada)
    /\ \E result \in RegistrosLote(entrada[Len(salida) + 1]) :
          salida' = Append(salida, ResultadoArchivo(entrada[Len(salida) + 1], result, TRUE))
    /\ UNCHANGED <<pc, resultado_tipo1, resultado_tipo2, resultado_tipo3, discrepancias,
                   resumen, entrada>>

\* one turn of the loop whose try block raises: the except clause records the
\* failure and the loop goes on
ProcesarArchivoConError ==
    /\ pc = "lote"
    /\ Len(salida) < Len(entrada)
    /\ salida' = Append(salida, ResultadoArchivo(entrada[Len(salida) + 1], None, FALSE))
    /\ UNCHANGED <<pc, resultado_tipo1, resultado_tipo2, resultado_tipo3, discrepancias,
                   resumen, entrada>>

\* the rest of main once process_multiple_files has returned
MostrarResultados ==
    /\ pc = "lote"
    /\ Len(salida) = Len(entrada)
    /\ \E d \in {IF Len(Exitosos(salida)) > 0
                 THEN display_discrepancias(Exitosos(salida)) ELSE SinAnalisis} :
          /\ pc' = d.pc
          /\ resultado_tipo1' = d.resultado_tipo1
          /\ resultado_tipo2' = d.resultado_tipo2
          /\ resultado_tipo3' = d.resultado_tipo3
          /\ discrepancias' = d.discrepancias
          /\ resumen' = d.resumen
    /\ UNCHANGED <<entrada, salida>>

NextLote == ProcesarArchivo \/ ProcesarArchivoConError \/ MostrarResultados

SpecLote == InitLote /\ [][NextLote]_vars

(***************************************************************************)
(* Properties of the reconciliation run                                    *)
(***************************************************************************)
CamposEnOrden ==
    << "Fecha de cirugía/reporte", "Datos del paciente", "Datos del procedimiento",
       "Médico responsable", "Lugar o ciudad", "Insumos utilizados",
       "Trazabilidad (REF/LOT)" >>

\* the severity tier of each of the seven fields, in the order of the items
CriticidadDelCampo == <<"ALTA", "ALTA", "MEDIA", "MEDIA", "BAJA", "ALTA", "ALTA">>

ClavesResumen ==
    {"total_campos_evaluados", "campos_coincidentes", "campos_con_discrepancias",
     "porcentaje_coincidencia", "discrepancias_por_criticidad",
     "requiere_revision_manual", "recomendacion"}

Devuelto == pc \in {"procesado", "fin"}

\* the items of the returned list that do not match, and those of them that
\* carry the severity sev
NoCoinciden == {i \in 1..Len(discrepancias) : ~discrepancias[i].coincide}

NoCoincidenDe(sev) == {i \in NoCoinciden : discrepancias[i].criticidad = sev}

\* no record of the run gives a truthy value under the key
CampoAusente(clave1, clave2, clave3) ==
    /\ ~Truthy(Get(resultado_tipo1, clave1, <<>>))
    /\ ~Truthy(Get(resultado_tipo2, clave2, <<>>))
    /\ ~Truthy(Get(resultado_tipo3, clave3, <<>>))

\* no record of the run lists a supply
SinInsumos ==
    /\ Get(resultado_tipo1, "insumos_utilizados", <<>>) = <<>>
    /\ Get(resultado_tipo2, "insumos_utilizados", <<>>) = <<>>
    /\ Get(resultado_tipo3, "insumos_mencionados", <<>>) = <<>>

\* C1: for every triple of records, each empty or as an extractor serialises
\* it (optional fields such as datos_procedimiento present but null),
\* procesar_resultados followed by generar_resumen_ejecutivo raises nothing,
\* and the run that ends returns a Summary with all its seven entries.
C1_SinErrorFatal ==
    /\ pc # "TypeError"
    /\ pc = "fin" => DOMAIN resumen = ClavesResumen

\* C2: whatever the three records hold, procesar_resultados returns exactly
\* seven items, in the order date, patient, procedure, physician, location,
\* supplies, traceability; a comparison none of whose inputs is there still
\* gives its item, not matching, with the rationale of missing data.
C2_SieteItemsEnOrden ==
    pc # "inicio" =>
        /\ Len(discrepancias) = 7
        /\ \A i \in 1..7 : discrepancias[i].campo = CamposEnOrden[i]
        /\ CampoAusente("fecha_reporte", "fecha_reporte", "fecha_reporte") =>
              /\ ~discrepancias[1].coincide
              /\ discrepancias[1].observaciones = "No se encontraron fechas válidas"
        /\ CampoAusente("nombre_paciente", "nombre_paciente", "nombre_paciente") =>
              /\ ~discrepancias[2].coincide
              /\ discrepancias[2].observaciones = "No se encontraron nombres válidos"
        /\ SinInsumos =>
              /\ ~discrepancias[6].coincide
              /\ discrepancias[6].observaciones =
                    "No se encontraron insumos en ningún documento"

\* C3 as the specification states it: every returned item carries the tier
\* of its field whether or not the comparison matched (date, patient,
\* supplies, traceability ALTA; procedure, physician MEDIA; location BAJA).
C3_CriticidadPreasignada ==
    Devuelto => \A i \in 1..7 : discrepancias[i].criticidad = CriticidadDelCampo[i]

\* C3 as the code has it: a returned item that does not match carries the
\* tier of its field (date, patient, supplies, traceability ALTA; procedure,
\* physician MEDIA; location BAJA); an item that matches carries BAJA
\* whatever its field.
C3_CriticidadSegunCoincidencia ==
    Devuelto =>
        \A i \in 1..7 :
            discrepancias[i].criticidad =
                IF discrepancias[i].coincide THEN "BAJA" ELSE CriticidadDelCampo[i]

\* a list where the date matches while the patient and the physician do not
C3_Witness ==
    /\ pc = "procesado"
    /\ discrepancias[1].coincide
    /\ ~discrepancias[2].coincide
    /\ ~discrepancias[4].coincide

\* C4: for every list procesar_resultados produces, requiere_revision_manual
\* is true if and only if at least one item of severity ALTA does not match.
C4_RevisionManual ==
    pc = "fin" => (resumen.requiere_revision_manual <=> NoCoincidenDe("ALTA") # {})

\* a Summary without manual review although an item does not match
C4_Witness ==
    /\ pc = "fin"
    /\ ~resumen.requiere_revision_manual
    /\ NoCoinciden # {}

\* C5: with n the number of non-matching items of severity ALTA, the
\* recommendation is REVISION URGENTE iff n >= 3, REVISION NECESARIA iff n is
\* 1 or 2, REVISION OPCIONAL iff n = 0.
C5_Recomendacion ==
    pc = "fin" =>
        LET n == Cardinality(NoCoincidenDe("ALTA"))
        IN  /\ resumen.recomendacion = "REVISION URGENTE: Múltiples discrepancias críticas detectadas"
                <=> n >= 3
            /\ resumen.recomendacion = "REVISION NECESARIA: Discrepancias críticas en campos importantes"
                <=> n \in {1, 2}
            /\ resumen.recomendacion = "REVISION OPCIONAL: Solo discrepancias menores detectadas"
                <=> n = 0

\* a Summary of a list with exactly three non-matching ALTA items
C5_Witness ==
    /\ pc = "fin"
    /\ Cardinality(NoCoincidenDe("ALTA")) = 3
    /\ resumen.recomendacion = "REVISION URGENTE: Múltiples discrepancias críticas detectadas"

\* C6: in the Summary of a run total_campos_evaluados = 7,
\* campos_coincidentes is the number of matching items,
\* campos_con_discrepancias = total - matching, and porcentaje_coincidencia
\* (in hundredths) is matching / total * 100 rounded to two decimals: within
\* half a hundredth of the exact quotient, in 0..100, and 100.00 exactly when
\* all seven match.
C6_Conteos ==
    pc = "fin" =>
        LET c == 7 - Cardinality(NoCoinciden)
            p == resumen.porcentaje_coincidencia
            error == 7 * p - 10000 * c
        IN  /\ resumen.total_campos_evaluados = 7
            /\ resumen.campos_coincidentes = c
            /\ resumen.campos_con_discrepancias = 7 - c
            /\ 2 * error <= 7 /\ 2 * error >= -7
            /\ p >= 0 /\ p <= 10000
            /\ p = 10000 <=> c = 7

\* a Summary whose percentage had to be rounded up (1 of 7: 14.29)
C6_Witness ==
    /\ pc = "fin"
    /\ resumen.campos_coincidentes = 1
    /\ resumen.porcentaje_coincidencia = 1429

\* C7: discrepancias_por_criticidad counts only the non-matching items: the
\* count of each severity is the number of non-matching items carrying it (a
\* severity without one has no entry), a matching item adds to no count, and
\* the counts add up to campos_con_discrepancias.
C7_ConteoPorCriticidad ==
    pc = "fin" =>
        LET counts == resumen.discrepancias_por_criticidad
        IN  /\ DOMAIN counts \subseteq {"ALTA", "MEDIA", "BAJA"}
            /\ \A sev \in {"ALTA", "MEDIA", "BAJA"} :
                  /\ Get(counts, sev, 0) = Cardinality(NoCoincidenDe(sev))
                  /\ sev \in DOMAIN counts <=> NoCoincidenDe(sev) # {}
            /\ Get(counts, "ALTA", 0) + Get(counts, "MEDIA", 0) + Get(counts, "BAJA", 0)
                  = resumen.campos_con_discrepancias

\* a Summary of a list with matching items and non-matching ones of two tiers
C7_Witness ==
    /\ pc = "fin"
    /\ Cardinality(NoCoinciden) < 7
    /\ NoCoincidenDe("ALTA") # {}
    /\ NoCoincidenDe("MEDIA") # {}

(***************************************************************************)
(* Properties of the comparators                                           *)
(***************************************************************************)
\* the entries of the list insumos whose canonical name is n
EntradasDe(insumos, n) ==
    {i \in 1..Len(insumos) : normalizar_insumo(Get(insumos[i], "nombre", <<>>)) = n}

\* the canonical names found in the three lists of the call
NombresCanonicos ==
    UNION {{normalizar_insumo(Get(entrada[s][i], "nombre", <<>>)) : i \in 1..Len(entrada[s])}
             : s \in 1..3} \ {<<>>}

\* the quantities of the canonical name n in the sources that list it (the
\* quantity a source gives is that of its last entry of the name)
CantidadesPresentes(n) ==
    {Get(entrada[s][SetMax(EntradasDe(entrada[s], n))], "cantidad", CantidadNA) :
        s \in {t \in 1..3 : EntradasDe(entrada[t], n) # {}}}

EnConflicto == {n \in NombresCanonicos : Cardinality(CantidadesPresentes(n)) > 1}

\* C8 as the specification states it: a canonical name is in conflict iff its
\* quantities in the sources where it is present take more than one value;
\* the supplies field matches iff no canonical name is in conflict; absence
\* from one or two sources is never a mismatch.
C8_CoincideSinConflicto ==
    pc = "retorno" =>
        /\ salida.coincide <=> EnConflicto = {}
        /\ salida.observaciones = "Discrepancias" <=> EnConflicto # {}

\* C8 as the code has it: a canonical name is in conflict iff its quantities
\* in the sources where it is present take more than one value; the supplies
\* field matches iff some source lists a supply and no canonical name is in
\* conflict; with no supply in any source the result is no-match with the
\* rationale that no supplies were found; absence of a name from one or two
\* sources is never a mismatch.
C8_CoincideConInsumosSinConflicto ==
    pc = "retorno" =>
        /\ salida.coincide <=> (NombresCanonicos # {} /\ EnConflicto = {})
        /\ salida.observaciones = "Discrepancias" <=> EnConflicto # {}
        /\ NombresCanonicos = {} =>
              salida.observaciones = "No se encontraron insumos en ningún documento"

\* a match where a name is listed by two sources and missing from the third
C8_Witness ==
    /\ pc = "retorno"
    /\ salida.coincide
    /\ \E n \in NombresCanonicos :
          /\ EntradasDe(entrada[1], n) # {}
          /\ EntradasDe(entrada[2], n) # {}
          /\ EntradasDe(entrada[3], n) = {}

\* the date tokens the sources of the call yield
FechasHalladas == {extraer_fecha_texto(entrada[i]) : i \in 1..3} \ {None}

\* C9: the date comparator matches iff exactly one distinct date token is
\* found among the sources that yield one; a source without an extractable
\* date is ignored; when no source yields a date the result is no-match with
\* the rationale that no valid date was found.
C9_UnaSolaFecha ==
    pc = "retorno" =>
        /\ salida.coincide <=> Cardinality(FechasHalladas) = 1
        /\ FechasHalladas = {} <=>
              salida.observaciones = "No se encontraron fechas válidas"

\* a match of two sources while the third holds a text without a date
C9_Witness ==
    /\ pc = "retorno"
    /\ salida.coincide
    /\ extraer_fecha_texto(entrada[1]) # None
    /\ Truthy(entrada[2]) /\ extraer_fecha_texto(entrada[2]) = None
    /\ extraer_fecha_texto(entrada[3]) # None

\* the values of the call left after normalising and dropping "" and "n/a"
NombresRestantes ==
    SelectSeq(<<normalizar_texto(entrada[1]), normalizar_texto(entrada[2]),
                normalizar_texto(entrada[3])>>, NombreValido)

\* matching characters and total length of the pair (i, j) of remaining values
M(i, j) ==
    Matches(NombresRestantes[i], NombresRestantes[j],
            1, Len(NombresRestantes[i]), 1, Len(NombresRestantes[j]))

T(i, j) == Len(NombresRestantes[i]) + Len(NombresRestantes[j])

\* the average of the ratios 2M/T of the pairs is at least 8/10, in exact
\* arithmetic
PromedioAlMenosUmbral ==
    IF Len(NombresRestantes) = 2
    THEN 10 * 2 * M(1, 2) >= 8 * T(1, 2)
    ELSE 10 * 2 * (M(1, 2) * T(1, 3) * T(2, 3) + M(1, 3) * T(1, 2) * T(2, 3)
                   + M(2, 3) * T(1, 2) * T(1, 3))
            >= 8 * 3 * T(1, 2) * T(1, 3) * T(2, 3)

\* C10: after normalising and dropping empty and "n/a" values, the name
\* comparator matches iff exactly one value remains or the average pairwise
\* similarity of the remaining values is at least 0.80; with no value left it
\* is no-match with the rationale that no valid names were found.
C10_CoincideSegunPromedio ==
    pc = "retorno" =>
        /\ salida.coincide <=>
              \/ Len(NombresRestantes) = 1
              \/ Len(NombresRestantes) >= 2 /\ PromedioAlMenosUmbral
        /\ Len(NombresRestantes) = 0 <=>
              salida.observaciones = "No se encontraron nombres válidos"

\* the indicators of the record of the call that are true, as positions in
\* the order references, lots, UDI, expiry dates
IndicadoresPresentes ==
    {k \in 1..4 : Get(Get(entrada, "etiquetas_trazabilidad", <<>>),
                      ClavesTrazabilidad[k], FALSE)}

ClavesDelCampo ==
    << <<"fecha_reporte", "fecha_reporte", "fecha_reporte">>,
       <<"nombre_paciente", "nombre_paciente", "nombre_paciente">>,
       <<"datos_procedimiento", "datos_procedimiento", "datos_procedimiento">>,
       <<"medico_responsable", "cirujano", "medico_responsable">>,
       <<"ciudad_lugar", "ciudad_lugar", "ciudad_lugar">> >>

Registros == <<resultado_tipo1, resultado_tipo2, resultado_tipo3>>

ValoresPorFuente(i) ==
    <<discrepancias[i].tipo_anexo1, discrepancias[i].tipo_anexo2,
      discrepancias[i].tipo_anexo3>>

\* C12: in every returned item of the date, patient, procedure, physician
\* and location comparisons, the value shown for a source is the literal
\* 'N/A' whenever that source did not provide the field (record missing, key
\* missing, or field present but null in the record), and is never None nor
\* the empty string.
C12_ValorNA ==
    Devuelto =>
        \A i \in 1..5, s \in 1..3 :
            /\ ~Truthy(Get(Registros[s], ClavesDelCampo[i][s], <<>>)) =>
                  ValoresPorFuente(i)[s] = NA
            /\ ValoresPorFuente(i)[s] # None
            /\ ValoresPorFuente(i)[s] # <<>>

(***************************************************************************)
(* Properties of the batch run                                             *)
(***************************************************************************)
LoteTerminado == pc \in {"fin", "sin_analisis", "TypeError"}

\* C13: reconciliation runs for any non-empty subset of the three record
\* types: once the batch is over with 1, 2 or 3 successfully extracted
\* records, the seven items and a Summary have been produced.
C13_ReconciliaCualquierSubconjunto ==
    (LoteTerminado /\ Len(Exitosos(salida)) >= 1) =>
        /\ Len(discrepancias) = 7
        /\ DOMAIN resumen # {}

\* the successful results of the batch whose type is tipo, as positions
ExitososDeTipo(tipo) == {i \in 1..Len(salida) : salida[i].success /\ salida[i].tipo = tipo}

\* C14: reconciliation is a synchronization point of the batch run: nothing
\* is compared before every selected document has a result (success or
\* failure), a failure does not stop the documents after it from being
\* processed, and the comparison receives exactly the records of the
\* successfully processed documents (the empty record for the other types).
C14_PuntoDeSincronizacion ==
    /\ (LoteTerminado \/ discrepancias # <<>> \/ DOMAIN resumen # {}) =>
          /\ Len(salida) = Len(entrada)
          /\ \A i \in 1..Len(entrada) : salida[i].tipo = entrada[i]
    /\ pc \in {"fin", "TypeError"} =>
          \A tipo \in 1..3 :
              \/ /\ ExitososDeTipo(tipo) = {}
                 /\ Registros[tipo] = <<>>
              \/ \E i \in ExitososDeTipo(tipo) :
                    /\ ExitososDeTipo(tipo) = {i}
                    /\ Registros[tipo] = salida[i].result

\* a batch of three documents whose first failed, the two others were
\* processed and compared
C14_Witness ==
    /\ pc = "fin"
    /\ Len(salida) = 3
    /\ ~salida[1].success
    /\ salida[2].success
    /\ salida[3].success
    /\ Len(discrepancias) = 7

(***************************************************************************)
(* Properties of normalizar_insumo                                         *)
(***************************************************************************)
\* the canonical keys in the order of the table
ClavesCanonicas ==
    << <<"c","a","t","e","t","e","r">>, <<"g","a","s","a">>, <<"s","u","t","u","r","a">>, <<"b","i","s","t","u","r","i">>, <<"a","g","u","j","a">> >>

\* the keys (as positions of the table) one of whose synonyms is a substring
\* of the text
ClavesHalladas(texto) ==
    {k \in 1..5 : \E v \in 1..Len(sinonimos_insumos[k].variantes) :
                      Contains(texto, sinonimos_insumos[k].variantes[v])}

\* C15: normalizar_insumo returns the first canonical key, in the table order
\* cateter, gasa, sutura, bisturi, aguja, one of whose synonyms is a
\* substring of the normalized raw name, and the normalized raw name itself
\* when no synonym of any key is a substring.
C15_PrimeraClave ==
    pc = "retorno" =>
        /\ \A k \in 1..5 :
              (k \in ClavesHalladas(normalizar_texto(entrada))
                  /\ \A j \in 1..(k - 1) : j \notin ClavesHalladas(normalizar_texto(entrada)))
              => salida = ClavesCanonicas[k]
        /\ ClavesHalladas(normalizar_texto(entrada)) = {} => salida = normalizar_texto(entrada)

\* a name holding synonyms of two keys, the later key's synonym first
C15_Witness ==
    /\ pc = "retorno"
    /\ entrada = <<"H","I","L","O"," "," ","s","o","n","d","a">>
    /\ salida = ClavesCanonicas[1]

(***************************************************************************)
(* Properties of normalizar_texto                                          *)
(***************************************************************************)
\* C16: normalizar_texto is idempotent: normalizing what it returned gives
\* the same text, for every input, the empty and the absent one included.
C16_Idempotente ==
    pc = "retorno" => normalizar_texto(salida) = salida

\* a text that every step of the normalizer changes
C16_Witness ==
    /\ pc = "retorno"
    /\ entrada = <<" ", "A", "\t", "b">>
    /\ salida = <<"a", " ", "b">>

(***************************************************************************)
(* Properties of the description extractor                                 *)
(***************************************************************************)
\* C17: extraction is deterministic: two extractions of the same text with
\* the same extractor return identical records, the order of the
\* denomination variants of each supply included.
C17_ExtraccionDeterminista ==
    \A i \in 1..Len(salida), j \in 1..Len(salida) : salida[i] = salida[j]

(***************************************************************************)
(* Properties of the internal report extractor                             *)
(***************************************************************************)
\* C18: no optional text field of an extracted record is ever the empty
\* string: the physician and the signatures an extractor returns are either
\* absent (None) or a non-empty string, for every input text.
C18_NuncaCadenaVacia ==
    pc = "retorno" => salida.valor # <<>>

(***************************************************************************)
(* The name comparator on one name in three spellings                      *)
(***************************************************************************)
TresNombres ==
    << <<"J","u","a","n"," ","P","é","r","e","z">>, <<"J","U","A","N"," ","P","E","R","E","Z">>,
       <<"j","u","a","n"," "," "," ","p","e","r","e","z">> >>

\* C20 as the specification states it: for the three names "Juan Pérez",
\* "JUAN PEREZ" and "juan   perez" the name comparator normalizes all three
\* to the same string, computes similarity 1.0 and returns match=true.
C20_NormalizadosIguales ==
    (pc = "retorno" /\ entrada = TresNombres) =>
        /\ normalizar_texto(entrada[1]) = normalizar_texto(entrada[2])
        /\ normalizar_texto(entrada[2]) = normalizar_texto(entrada[3])
        /\ \A i \in 1..3, j \in 1..3 : i < j => 2 * M(i, j) = T(i, j)
        /\ salida.coincide

\* C20: for the three names "Juan Pérez", "JUAN PEREZ" and "juan   perez"
\* the name comparator normalizes case and whitespace but keeps the accent
\* ("juan pérez", "juan perez", "juan perez"), so the pairwise similarities
\* are 0.9, 0.9 and 1.0 (not all 1.0), and it returns match=true with the
\* rationale of similar names.
C20_CoincidenConAcento ==
    (pc = "retorno" /\ entrada = TresNombres) =>
        /\ normalizar_texto(entrada[1]) = <<"j","u","a","n"," ","p","é","r","e","z">>
        /\ normalizar_texto(entrada[2]) = <<"j","u","a","n"," ","p","e","r","e","z">>
        /\ normalizar_texto(entrada[3]) = <<"j","u","a","n"," ","p","e","r","e","z">>
        /\ 10 * 2 * M(1, 2) = 9 * T(1, 2)
        /\ 10 * 2 * M(1, 3) = 9 * T(1, 3)
        /\ 2 * M(2, 3) = T(2, 3)
        /\ salida.coincide
        /\ salida.observaciones = "Nombres similares"

C20_Witness ==
    /\ pc = "retorno"
    /\ entrada = TresNombres
    /\ salida.coincide

(***************************************************************************)
(* Three documents that agree, reconciled                                  *)
(***************************************************************************)
\* the canonical names of the supplies of a list
NombresDeInsumos(insumos) == DOMAIN extraer_nombres_cantidades(insumos)

\* All three records are present; the type 1 and type 2 records carry the
\* same date, the same patient, procedure, surgeon and place up to case and
\* whitespace; the three documents list the same supplies, types 1 and 2
\* with the same quantities; the type 1 record has the four traceability
\* indicators.
Concordantes ==
    /\ resultado_tipo1 # <<>> /\ resultado_tipo2 # <<>> /\ resultado_tipo3 # <<>>
    /\ resultado_tipo1.fecha_reporte # None
    /\ resultado_tipo1.fecha_reporte = resultado_tipo2.fecha_reporte
    /\ resultado_tipo1.nombre_paciente # None
    /\ normalizar_texto(resultado_tipo1.nombre_paciente)
          = normalizar_texto(resultado_tipo2.nombre_paciente)
    /\ resultado_tipo1.datos_procedimiento # None
    /\ resultado_tipo2.datos_procedimiento # None
    /\ normalizar_texto(resultado_tipo1.datos_procedimiento)
          = normalizar_texto(resultado_tipo2.datos_procedimiento)
    /\ comparar_nombres(resultado_tipo1.medico_responsable,
                        resultado_tipo2.cirujano, None).coincide
    /\ resultado_tipo1.ciudad_lugar = resultado_tipo2.ciudad_lugar
    /\ NombresDeInsumos(resultado_tipo1.insumos_utilizados) # {}
    /\ NombresDeInsumos(resultado_tipo1.insumos_utilizados)
          = NombresDeInsumos(resultado_tipo2.insumos_utilizados)
    /\ NombresDeInsumos(resultado_tipo1.insumos_utilizados)
          = NombresDeInsumos(resultado_tipo3.insumos_mencionados)
    /\ extraer_nombres_cantidades(resultado_tipo1.insumos_utilizados)
          = extraer_nombres_cantidades(resultado_tipo2.insumos_utilizados)
    /\ resultado_tipo1.etiquetas_trazabilidad = EtiquetasTrazabilidad(4)

\* C19: when the records of three documents that agree on every compared
\* field are reconciled, the summary has porcentaje_coincidencia = 100.0
\* and requiere_revision_manual = false.
C19_ConcordantesAlCiento ==
    (pc = "fin" /\ Concordantes) =>
        /\ resumen.porcentaje_coincidencia = 10000
        /\ ~resumen.requiere_revision_manual

(***************************************************************************)
(* A run without the internal record                                       *)
(***************************************************************************)
\* C26: when the type-1 record is missing from a run, the traceability item
\* of the returned list does not match and has severity ALTA, and the
\* Summary has requiere_revision_manual true and a recommendation other than
\* REVISION OPCIONAL, whatever the other two records contain.
C26_SinInternoRevision ==
    resultado_tipo1 = <<>> =>
        /\ Devuelto =>
              /\ discrepancias[7].campo = "Trazabilidad (REF/LOT)"
              /\ ~discrepancias[7].coincide
              /\ discrepancias[7].criticidad = "ALTA"
        /\ pc = "fin" =>
              /\ resumen.requiere_revision_manual
              /\ resumen.recomendacion
                    # "REVISION OPCIONAL: Solo discrepancias menores detectadas"

\* a Summary of a run of the type-2 and type-3 records only, in which the
\* traceability item is the only ALTA item that does not match
C26_Witness ==
    /\ pc = "fin"
    /\ resultado_tipo1 = <<>>
    /\ resultado_tipo2 # <<>>
    /\ resultado_tipo3 # <<>>
    /\ NoCoincidenDe("ALTA") = {7}
    /\ resumen.requiere_revision_manual

(***************************************************************************)
(* The description record in the comparisons                               *)
(***************************************************************************)
\* the list of the same run without the description record
SinDescripcion == procesar_resultados(resultado_tipo1, resultado_tipo2, <<>>).valor

\* C27: in the items of the date, the patient, the procedure, the physician
\* and the place the value of the third source is the default 'N/A' when a
\* description record takes part, and the items are those of the run without
\* it: the description record has none of the keys these comparisons read.
C27_DescripcionSoloEnInsumos ==
    (Devuelto /\ resultado_tipo3 # <<>>) =>
        \E sin \in {SinDescripcion} :
            \A i \in 1..5 :
                /\ discrepancias[i].tipo_anexo3 = NA
                /\ discrepancias[i] = sin[i]

\* a returned list of a run with a description record that mentions a supply
\* and a description of the procedure
C27_Witness ==
    /\ Devuelto
    /\ resultado_tipo3 # <<>>
    /\ Truthy(resultado_tipo3.descripcion_procedimiento)
    /\ resultado_tipo3.insumos_mencionados # <<>>
    /\ resultado_tipo1 # <<>>
    /\ discrepancias[2].tipo_anexo3 = NA
    /\ discrepancias[6] # SinDescripcion[6]

(***************************************************************************)
(* Supplies without a known quantity                                       *)
(***************************************************************************)
\* the quantity read for a supply whose cantidad is null, and for a supply
\* without the key cantidad
SinCantidad == {CantidadNone, CantidadNA}

\* the canonical names a source lists without a known quantity while another
\* source lists them with a number
ConocidaYDesconocida ==
    {n \in NombresCanonicos :
        /\ CantidadesPresentes(n) \cap SinCantidad # {}
        /\ \E q \in CantidadesPresentes(n) : q >= 0}

\* C28: a supply that a source lists without a known quantity (cantidad null,
\* or no cantidad key, read as 'N/A') counts as a present quantity value: when
\* another source lists the same canonical name with a numeric quantity the
\* supplies comparison does not match and reports discrepancies.
C28_SinCantidadEnConflicto ==
    (pc = "retorno" /\ ConocidaYDesconocida # {}) =>
        /\ ~salida.coincide
        /\ salida.observaciones = "Discrepancias"

\* the description mentions the one supply the internal report lists with a
\* quantity, the hospital report lists nothing, and the comparison fails
C28_Witness ==
    /\ pc = "retorno"
    /\ Len(entrada[1]) = 1
    /\ entrada[2] = <<>>
    /\ Len(entrada[3]) = 1
    /\ "cantidad" \notin DOMAIN entrada[3][1]
    /\ ConocidaYDesconocida # {}
    /\ ~salida.coincide

(***************************************************************************)
(* Several entries of one canonical name in one source                     *)
(***************************************************************************)
\* the entries of a list that are the last of their canonical name, in order
UltimasEntradas(insumos) ==
    LET ultimas == {i \in 1..Len(insumos) :
                      \A j \in 1..Len(insumos) :
                         j > i => normalizar_insumo(Get(insumos[j], "nombre", <<>>))
                                    # normalizar_insumo(Get(insumos[i], "nombre", <<>>))}
        orden == CHOOSE f \in [1..Cardinality(ultimas) -> ultimas] :
                    \A a, b \in 1..Cardinality(ultimas) : a < b => f[a] < f[b]
    IN  List([k \in 1..Cardinality(ultimas) |-> insumos[orden[k]]], Cardinality(ultimas))

\* a source lists a canonical name twice with different quantities
RepetidoConOtraCantidad(insumos) ==
    \E i, j \in 1..Len(insumos) :
        /\ i < j
        /\ normalizar_insumo(Get(insumos[i], "nombre", <<>>))
             = normalizar_insumo(Get(insumos[j], "nombre", <<>>))
        /\ Truthy(normalizar_insumo(Get(insumos[i], "nombre", <<>>)))
        /\ Get(insumos[i], "cantidad", CantidadNA) # Get(insumos[j], "cantidad", CantidadNA)

\* C29: within one source only the quantity of the last entry of a canonical
\* name is kept: the comparison of the three lists is the comparison of the
\* lists cut down to the last entry of each canonical name, in both
\* analysers, and a source that is alone never conflicts with itself.
C29_UltimaCantidad ==
    pc = "retorno" =>
        /\ salida = comparar_insumos(UltimasEntradas(entrada[1]),
                                     UltimasEntradas(entrada[2]),
                                     UltimasEntradas(entrada[3]))
        /\ comparar_insumos_interfaz(entrada[1], entrada[2], entrada[3])
             = comparar_insumos_interfaz(UltimasEntradas(entrada[1]),
                                         UltimasEntradas(entrada[2]),
                                         UltimasEntradas(entrada[3]))
        /\ (entrada[1] # <<>> /\ entrada[2] = <<>> /\ entrada[3] = <<>>) =>
              salida.coincide

\* the internal report lists one canonical name twice with different
\* quantities, the hospital report lists it once with the later quantity,
\* and the comparison matches
C29_Witness ==
    /\ pc = "retorno"
    /\ RepetidoConOtraCantidad(entrada[1])
    /\ entrada[2] # <<>>
    /\ NombresDeInsumos(entrada[1]) = NombresDeInsumos(entrada[2])
    /\ salida.coincide

(***************************************************************************)
(* The two analysers on the same records                                   *)
(***************************************************************************)
\* the tier of a recommendation of either analyser: the words before the colon
NivelDeRecomendacion(recomendacion) ==
    CASE recomendacion \in {"REVISION URGENTE: Múltiples discrepancias críticas detectadas",
                            "REVISION URGENTE: Múltiples discrepancias críticas"}
            -> "REVISION URGENTE"
      [] recomendacion \in {"REVISION NECESARIA: Discrepancias críticas en campos importantes",
                            "REVISION NECESARIA: Discrepancias críticas detectadas"}
            -> "REVISION NECESARIA"
      [] recomendacion \in {"REVISION OPCIONAL: Solo discrepancias menores detectadas",
                            "REVISION OPCIONAL: Solo discrepancias menores"}
            -> "REVISION OPCIONAL"

\* what the interface's analyser returns for the records of the run
DeLaInterfaz ==
    procesar_resultados_interfaz(resultado_tipo1, resultado_tipo2, resultado_tipo3)

\* the two items agree on the field, the match flag and the severity
MismaDecision(a, b) ==
    /\ a.campo = b.campo
    /\ a.coincide = b.coincide
    /\ a.criticidad = b.criticidad

\* C30: for every triple of records the two analysers raise the same error
\* or return the same seven fields in the same order with the same match
\* flags and severities and the same displayed values except the procedure
\* text, and their Summaries have the same counts, percentage, manual-review
\* flag and recommendation tier.
C30_AnalizadoresDeAcuerdo ==
    pc # "inicio" =>
        \E interfaz \in {DeLaInterfaz} :
            /\ pc = "TypeError" <=> interfaz.excepcion = "TypeError"
            /\ Devuelto =>
                  /\ Len(interfaz.valor) = Len(discrepancias)
                  /\ \A i \in 1..Len(discrepancias) :
                        /\ MismaDecision(discrepancias[i], interfaz.valor[i])
                        /\ i # 3 =>
                              /\ discrepancias[i].tipo_anexo1 = interfaz.valor[i].tipo_anexo1
                              /\ discrepancias[i].tipo_anexo2 = interfaz.valor[i].tipo_anexo2
                              /\ discrepancias[i].tipo_anexo3 = interfaz.valor[i].tipo_anexo3
            /\ pc = "fin" =>
                  \E otro \in {generar_resumen_ejecutivo_interfaz(interfaz.valor)} :
                      /\ \A k \in ClavesResumen \ {"recomendacion"} : resumen[k] = otro[k]
                      /\ NivelDeRecomendacion(resumen.recomendacion)
                           = NivelDeRecomendacion(otro.recomendacion)

\* a Summary of a run in which three ALTA items do not match and the two
\* analysers show the procedure text of the internal record cut differently
C30_Witness ==
    /\ pc = "fin"
    /\ Cardinality(NoCoincidenDe("ALTA")) = 3
    /\ discrepancias[3].tipo_anexo1 # DeLaInterfaz.valor[3].tipo_anexo1
    /\ discrepancias[7].observaciones # DeLaInterfaz.valor[7].observaciones

(***************************************************************************)
(* The report date from the extractor to the comparator                    *)
(***************************************************************************)
\* C21: a report date written in any of D/M/YYYY, D-M-YYYY, YYYY/M/D or
\* YYYY-M-D is captured whole by _extract_date, and every fecha_reporte value
\* the extractor emits is recognised by extraer_fecha_texto as that same date
\* token.
C21_MismosFormatos ==
    pc = "retorno" =>
        /\ \A pre \in PrefijosFecha, suf \in SufijosFecha, f \in 1..4, d \in 1..MaxDia :
              entrada = pre \o FechaEnFormato(f, d) \o suf =>
                  salida.fecha_reporte = FechaEnFormato(f, d)
        /\ salida.fecha_reporte # None => salida.fecha = salida.fecha_reporte

(***************************************************************************)
(* The quantities of the line-item supplies                                *)
(***************************************************************************)
LineasDeEntrada == Split(entrada, "\n")

\* the ceiling of a quantity in the extractor of the call
TechoDeCantidad == IF salida.extractor = "interno" THEN 1000 ELSE 100

\* the line has five digits in a row
ConCincoDigitos(line) ==
    \E p \in 1..Len(line) : p + 4 <= Len(line) /\ \A i \in p..(p + 4) : line[i] \in Digits

\* the line names a screw, a plate or a pin, in any case
ConNombreDeInsumo(line) ==
    \E w \in {<<"t","o","r","n","i","l","l","o">>, <<"p","l","a","c","a">>, <<"p","i","n">>} :
        Contains(Lower(line), w)

\* the lines that give a supply in the extractor of the call, in order
LineasDeInsumo ==
    LET DaInsumo(i) ==
            IF salida.extractor = "interno" THEN ConCincoDigitos(LineasDeEntrada[i])
            ELSE ConNombreDeInsumo(LineasDeEntrada[i])
    IN  SelectSeq(Indices(LineasDeEntrada), DaInsumo)

\* the digits the trimmed line starts with
DigitosIniciales(line) ==
    LET t == Strip(line)
        n == Cardinality({k \in 1..Len(t) : \A i \in 1..k : t[i] \in Digits})
    IN  SubSeq(t, 1, n)

\* C23: the quantity of every line-item supply is absent or an integer n
\* with 0 <= n < ceiling (1000 in the internal extractor, 100 in the hospital
\* one); it is the integer the trimmed line of the supply starts with, which
\* is used whenever it is below the ceiling and never when it is at or above.
C23_CantidadBajoTecho ==
    pc = "retorno" =>
        /\ Len(salida.insumos) = Len(LineasDeInsumo)
        /\ \A k \in 1..Len(salida.insumos) :
              LET c == salida.insumos[k].cantidad
                  ds == DigitosIniciales(LineasDeEntrada[LineasDeInsumo[k]])
              IN  /\ c = CantidadNone \/ (0 <= c /\ c < TechoDeCantidad)
                  /\ c # CantidadNone => (ds # <<>> /\ ValorEntero(ds) = c)
                  /\ (ds # <<>> /\ ValorEntero(ds) < TechoDeCantidad) => c = ValorEntero(ds)
                  /\ (ds # <<>> /\ ValorEntero(ds) >= TechoDeCantidad) => c = CantidadNone

\* the internal extractor on a line that starts with its ceiling and a line
\* that starts with 007: no quantity for the first supply, 7 for the second
C23_Witness ==
    /\ pc = "retorno"
    /\ salida.extractor = "interno"
    /\ entrada = <<"1","0","0","0"," ","P","i","n"," ","1","2","3","4","5","6","\n","0","0","7"," ","t","o","r","n","i","l","l","o"," ","5","5","5","5","5","5">>
    /\ Len(salida.insumos) = 2
    /\ salida.insumos[1].cantidad = CantidadNone
    /\ salida.insumos[2].cantidad = 7

(***************************************************************************)
(* The lot code and the expiry date of a reference line                    *)
(***************************************************************************)
\* the lines of the window of the reference line i that have a match of the
\* pattern
EnVentanaCon(patron, i) ==
    {j \in 1..Len(LineasDeEntrada) :
        /\ i - 2 <= j /\ j <= i + 2
        /\ Grupo(patron, LineasDeEntrada[j]) # None}

\* C24: for a reference line i of the internal report the lot code of its
\* supply is that of the first line among the two lines before through the
\* two lines after i that has one, and absent when none of them has one; the
\* same, independently, for the expiry date; and etiqueta_presente is true
\* iff a lot code or an expiry date was found.
C24_VentanaDeEtiqueta ==
    (pc = "retorno" /\ salida.extractor = "interno") =>
        \A k \in 1..Len(salida.insumos) :
            LET s == salida.insumos[k]
                lotes == EnVentanaCon(patron_lote, LineasDeInsumo[k])
                vencimientos == EnVentanaCon(patron_vencimiento, LineasDeInsumo[k])
            IN  /\ lotes = {} => s.lote_lot = None
                /\ lotes # {} =>
                      s.lote_lot = Grupo(patron_lote, LineasDeEntrada[SetMin(lotes)])
                /\ vencimientos = {} => s.fecha_vencimiento = None
                /\ vencimientos # {} =>
                      s.fecha_vencimiento
                        = Grupo(patron_vencimiento, LineasDeEntrada[SetMin(vencimientos)])
                /\ s.etiqueta_presente <=> (lotes # {} \/ vencimientos # {})

\* the reference is on the fourth line: the lot code of the first line is
\* outside its window, that of the second line is taken
C24_Witness ==
    /\ pc = "retorno"
    /\ salida.extractor = "interno"
    /\ entrada = <<"L","O","T",":"," ","7","7","\n","l","o","t"," ","8","8"," ","2","0","2","6","-","0","1","-","3","1","\n","x","\n","2"," ","T","o","r","n","i","l","l","o"," ","1","2","3","4","5","6">>
    /\ Len(salida.insumos) = 1
    /\ salida.insumos[1].lote_lot = <<"8","8">>
    /\ salida.insumos[1].fecha_vencimiento = <<"2","0","2","6","-","0","1","-","3","1">>
    /\ salida.insumos[1].etiqueta_presente

(***************************************************************************)
(* The surgeon and the patient of one hospital extraction                  *)
(***************************************************************************)
\* C25: the hospital extractor never returns a surgeon whose text contains,
\* or is contained in, the patient name returned by the same extraction,
\* whatever the case of the letters.
C25_CirujanoNoEsPaciente ==
    (pc = "retorno" /\ salida.cirujano # None /\ salida.nombre_paciente # None) =>
        /\ ~Contains(Lower(salida.cirujano), Lower(salida.nombre_paciente))
        /\ ~Contains(Lower(salida.nombre_paciente), Lower(salida.cirujano))

(***************************************************************************)
(* SmartOCRProcessor.process (src/smart_ocr.py): entrada is the call       *)
(* (image_path, extraction_type); salida counts the calls of the OCR       *)
(* client, keeps the text the client returned, lists the calls of          *)
(* extractor.extract (the extractor and its argument) and holds result.    *)
(* Of a record the fields of the methods modelled above are kept.          *)
(***************************************************************************)
\* corrections of MedicalTextProcessor.clean_text, in the order of the dict
corrections ==
    << [patron |-> Textual(<<"T","o","r","n">>) \o <<Rep(Whitespace, 1, MaxRepeticiones)>>
                      \o Textual(<<"e","n","c","e","ç","á","l","i","c","o">>),
        reemplazo |-> <<"T","o","r","n","i","l","l","o"," ","e","n","c","e","f","á","l","i","c","o">>],
       [patron |-> Textual(<<"T","ô","r","n">>) \o <<Rep(Whitespace, 1, MaxRepeticiones)>>
                      \o Textual(<<"e","n","c","e","f","á","l","i","c","o">>),
        reemplazo |-> <<"T","o","r","n","i","l","l","o"," ","e","n","c","e","f","á","l","i","c","o">>],
       [patron |-> Textual(<<"c","u","r","v","a","n","e","r","v","i","o","s">>),
        reemplazo |-> <<"C","u","r","v","a","N","e","r","v">>],
       [patron |-> Textual(<<"E","s","p","e","c","i","a","l","e","t","a">>),
        reemplazo |-> <<"E","s","p","e","c","i","a","l","i","s","t","a">>],
       [patron |-> Textual(<<"P","r","o","c","e","d","m","e","o">>),
        reemplazo |-> <<"P","r","o","c","e","d","i","m","i","e","n","t","o">>],
       [patron |-> Textual(<<"F","e","c","h","o">>),
        reemplazo |-> <<"F","e","c","h","a">>],
       [patron |-> Textual(<<"R","e","m","i","t","i","ó","n">>),
        reemplazo |-> <<"R","e","m","i","s","i","ó","n">>] >>

RECURSIVE ReSub(_, _, _, _)

\* re.sub(pattern, replacement, text, flags=re.IGNORECASE) from pos on: the
\* leftmost matches, none overlapping another, give way to the replacement
ReSub(pat, repl, text, pos) ==
    IF pos > Len(text) THEN <<>>
    ELSE LET hasta == MatchFrom(pat, 1, text, pos)
         IN  IF hasta > pos THEN repl \o ReSub(pat, repl, text, hasta)
             ELSE <<text[pos]>> \o ReSub(pat, repl, text, pos + 1)

RECURSIVE Corregido(_, _)

\* cleaned_text after the first k turns of the loop over corrections
Corregido(text, k) ==
    IF k = 0 THEN text
    ELSE ReSub(corrections[k].patron, corrections[k].reemplazo, Corregido(text, k - 1), 1)

\* MedicalTextProcessor.clean_text
clean_text(text) == Corregido(text, Len(corrections))

\* self.extractors: the class of the extractor registered for each tag
extractors ==
    <<"ReporteInternoExtractor", "ReporteHospitalExtractor",
      "DescripcionQuirurgicaExtractor">>

\* ReporteInternoExtractor.extract on the cleaned text
extract_interno(cleaned_text) ==
    { [excepcion |-> "",
       valor |-> [tipo_documento |-> "REPORTE DE GASTO QUIRÚRGICO (INTERNO)",
                  fecha_reporte |-> _extract_date(cleaned_text),
                  medico_responsable |-> _extract_doctor(cleaned_text),
                  insumos_utilizados |->
                      _extract_supplies_with_traceability(cleaned_text),
                  firmas_responsables |-> _extract_signatures(cleaned_text)]] }

\* ReporteHospitalExtractor.extract on the cleaned text, for the outcome of
\* its call of _extract_doctor: an exception raised there leaves the call
hospital_con(cleaned_text, doctor) ==
    IF doctor.excepcion # "" THEN { [excepcion |-> doctor.excepcion, valor |-> None] }
    ELSE { [excepcion |-> "",
            valor |-> [tipo_documento |-> "REPORTE DE GASTO QUIRÚRGICO (HOSPITAL)",
                       nombre_paciente |-> _extract_patient_name(cleaned_text),
                       fecha_reporte |-> _extract_date(cleaned_text),
                       cirujano |-> doctor.valor,
                       insumos_utilizados |-> _extract_supplies_basic(cleaned_text)]] }

extract_hospital(cleaned_text) ==
    hospital_con(cleaned_text, _extract_doctor_hospital(cleaned_text))

\* DescripcionQuirurgicaExtractor.extract on the cleaned text
extract_descripcion(cleaned_text) ==
    { [excepcion |-> "",
       valor |-> [tipo_documento |-> "DESCRIPCIÓN QUIRÚRGICA (DOCTOR)",
                  insumos_mencionados |-> supplies]] :
      supplies \in _extract_mentioned_supplies(cleaned_text) }

\* extractor.extract(text): the outcomes the call can have
extract_con(extractor, cleaned_text) ==
    CASE extractor = "ReporteInternoExtractor" -> extract_interno(cleaned_text)
      [] extractor = "ReporteHospitalExtractor" -> extract_hospital(cleaned_text)
      [] extractor = "DescripcionQuirurgicaExtractor" -> extract_descripcion(cleaned_text)

extract(extractor, text) == extract_con(extractor, clean_text(text))

\* the files Path(image_path).exists() finds
ArchivosExistentes == {"reporte.png", "factura.jpg"}

RutasDeEntrada == ArchivosExistentes \cup {"ausente.png"}

\* extraction_type of the calls
TiposDeEntrada == 0..4

\* the texts the provider can answer with
TextosOCR ==
    { <<>>,
      <<"x">>,
      <<"P","a","c","i","e","n","t","e",":"," ","J","u","a","n"," ","P","e","r","e","z","\n","C","i","r","u","j","a","n","o",":"," ","D","r","."," ","R","u","i","z">>,
      <<"E","s","p","e","c","i","a","l","e","t","a",":"," ","D","r","."," ","J","u","a","n"," ","P","r","o","c","e","d","m","e","o">>,
      <<"F","e","c","h","o",":"," ","1","2","/","0","5","/","2","0","2","4">>,
      <<"2"," ","T","o","r","n","i","l","l","o"," ","1","2","3","4","5","6">>,
      <<"C","i","r","u","j","a","n","o",":"," ","A","n","a">>,
      <<"T","ô","r","n"," ","e","n","c","e","f","á","l","i","c","o","\n","\n","1"," ","P","l","a","c","a"," ","6","5","4","3","2","1">> }

\* OCRSpaceClient.extract_text: the outcomes the call can have
extract_text(image_path) ==
    IF image_path \notin ArchivosExistentes
    THEN { [excepcion |-> "FileNotFoundError", valor |-> None] }
    ELSE { [excepcion |-> "Exception", valor |-> None] }
             \cup { [excepcion |-> "", valor |-> text] : text \in TextosOCR }

InitProcess ==
    /\ pc = "process"
    /\ entrada \in [image_path : RutasDeEntrada, extraction_type : TiposDeEntrada]
    /\ salida = [llamadas_ocr |-> 0, raw_text |-> None, extracciones |-> <<>>,
                 result |-> None]
    /\ SinRegistros

\* if extraction_type not in self.extractors: raise ValueError
ValidarTipo ==
    /\ pc = "process"
    /\ pc' = IF entrada.extraction_type \in DOMAIN extractors THEN "ocr" ELSE "ValueError"
    /\ UNCHANGED <<resultado_tipo1, resultado_tipo2, resultado_tipo3, discrepancias,
                   resumen, entrada, salida>>

\* raw_text = self.ocr_client.extract_text(image_path, **kwargs)
LlamarOCR ==
    /\ pc = "ocr"
    /\ \E r \in extract_text(entrada.image_path) :
          /\ salida' = [salida EXCEPT !.llamadas_ocr = @ + 1, !.raw_text = r.valor]
          /\ pc' = IF r.excepcion = "" THEN "extraer" ELSE r.excepcion
    /\ UNCHANGED <<resultado_tipo1, resultado_tipo2, resultado_tipo3, discrepancias,
                   resumen, entrada>>

\* the extractor of the first tag, whatever the tag
extractor_elegido_primero(extraction_type) == extractors[1]

\* extractor = self.extractors[extraction_type]
extractor_elegido(extraction_type) == extractors[extraction_type]

\* result = extractor.extract(raw_text); return result
EjecutarExtractor ==
    /\ pc = "extraer"
    /\ \E r \in extract(extractor_elegido(entrada.extraction_type), salida.raw_text) :
          /\ salida' = [salida EXCEPT
                          !.extracciones =
                              Append(@, [extractor |->
                                             extractor_elegido(entrada.extraction_type),
                                         text |-> salida.raw_text]),
                          !.result = r.valor]
          /\ pc' = IF r.excepcion = "" THEN "retorno" ELSE r.excepcion
    /\ UNCHANGED <<resultado_tipo1, resultado_tipo2, resultado_tipo3, discrepancias,
                   resumen, entrada>>

NextProcess == ValidarTipo \/ LlamarOCR \/ EjecutarExtractor

SpecProcess == InitProcess /\ [][NextProcess]_vars

\* C22: process validates the tag before anything else: with a tag outside
\* {1, 2, 3} the call ends in ValueError and neither the OCR client nor an
\* extractor was called; the OCR client is called once at most; after a
\* failed OCR call no extractor was run and the call ended in its error; an
\* extractor runs only after the one OCR call, only once, and it is the one
\* registered for the tag, on the text the client returned.
C22_ValidaLlamaExtrae ==
    pc \in {"process", "ocr", "extraer", "ValueError", "FileNotFoundError",
            "Exception", "re.error", "retorno"} =>
        /\ entrada.extraction_type \notin {1, 2, 3} =>
              /\ pc \in {"process", "ValueError"}
              /\ salida.llamadas_ocr = 0
              /\ salida.extracciones = <<>>
        /\ pc = "ValueError" => entrada.extraction_type \notin {1, 2, 3}
        /\ salida.llamadas_ocr <= 1
        /\ pc \in {"FileNotFoundError", "Exception"} =>
              /\ salida.llamadas_ocr = 1
              /\ salida.extracciones = <<>>
        /\ pc \in {"process", "ocr", "extraer"} => salida.extracciones = <<>>
        /\ pc \in {"retorno", "re.error"} =>
              /\ salida.llamadas_ocr = 1
              /\ salida.extracciones =
                     << [extractor |-> extractors[entrada.extraction_type],
                         text |-> salida.raw_text] >>
        /\ pc = "retorno" =>
              salida.result.tipo_documento =
                  CASE entrada.extraction_type = 1 ->
                           "REPORTE DE GASTO QUIRÚRGICO (INTERNO)"
                    [] entrada.extraction_type = 2 ->
                           "REPORTE DE GASTO QUIRÚRGICO (HOSPITAL)"
                    [] entrada.extraction_type = 3 ->
                           "DESCRIPCIÓN QUIRÚRGICA (DOCTOR)"

\* a call with tag 2 returned: the OCR client was called once and the
\* hospital extractor ran on the text it returned, here a corrected one
C22_Witness ==
    /\ pc = "retorno"
    /\ entrada.extraction_type = 2
    /\ salida.llamadas_ocr = 1
    /\ Len(salida.extracciones) = 1
    /\ salida.extracciones[1].extractor = "ReporteHospitalExtractor"
    /\ salida.raw_text # clean_text(salida.raw_text)
    /\ salida.result.cirujano = <<"D","r","."," ","J","u","a","n">>

====
